---- MODULE Spec2Model ----
(***************************************************************************)
(* Helm Poll client core (src/app/Helm Poll/src/legacy/legacy.app.js):     *)
(* the device-local store (identity, stamp pool, voter tokens, local       *)
(* drafts and their vote state), the UI handlers that drive it (create     *)
(* poll, open poll, cast vote, assert, refresh, create identity) and the   *)
(* remote Exchange they talk to.                                           *)
(*                                                                         *)
(* A handler is an async function: it runs synchronously from one await    *)
(* of a network call to the next.  Each action below is one such segment:  *)
(* it takes the response of the request in flight (chosen by the           *)
(* Exchange/network, nondeterministically) and runs the handler up to its  *)
(* next request or to its end.  pc is the await the running handler is     *)
(* suspended at; "idle" means no handler is running.  Under Spec handlers  *)
(* are invoked one after the other.                                        *)
(***************************************************************************)
EXTENDS Integers, Sequences, FiniteSets, TLC

\* ------------------------------------------------------------------
\* Bounds of the model
\* ------------------------------------------------------------------
\* local drafts the user creates
MaxDrafts == 1
\* polls the Exchange accepts to create
MaxRemote == 2
\* stamps the Exchange issues
MaxStamps == 2
\* local voter tokens ensureLocalToken creates
MaxLocalTok == 2
\* device tokens that vote on one draft in the vote store specification
MaxVoters == 4
\* stamps the Exchange issues in the stamp pool specification
PoolStamps == 3
\* length of the longest `issued` list in the stamp pool specification
MaxIssued == 2
\* signing keys the Exchange may issue in the signing specification
MaxKeys == 2
\* pages of the application open on the same local storage
MaxPages == 2
\* largest weight an option has in a result payload
MaxWeight == 2
\* polls of an index the merge lookup is applied to
MaxMatches == 2
\* largest creation timestamp of such a poll
MaxTime == 11
\* candidates the proof-of-work search of the model tries: 0..MaxPowNonce
MaxPowNonce == 2
\* hex digits of a modelled hash
HashLen == 2
\* largest difficulty a challenge of the model asks for
MaxDifficulty == 2
\* candidates after which a search that finds nothing is cut off
MaxSearch == 1000

\* EventSource objects created in one run
MaxSources == 3

\* openPoll invocations suspended at their hydration at one time
MaxCalls == 2

\* ------------------------------------------------------------------
\* Values
\* ------------------------------------------------------------------
\* null for ids, stamps and tokens (all are <<kind, number>>)
Nil == <<"none", 0>>

\* "local_" + makeId()
LocalId(n) == <<"local", n>>

\* a poll id assigned by the Exchange
RemoteId(n) == <<"remote", n>>

\* String(pollId).startsWith("local_")
startsWithLocal(id) == id[1] = "local"

\* a stamp string "s_..." issued by the Exchange
Stamp(n) == <<"s", n>>

\* the voter token the Exchange issues for a poll
VoterToken(id) == <<"vt", id[2]>>

\* "localtok_" + makeId()
LocalTok(n) == <<"localtok", n>>

\* option labels a draft is created with
Labels == <<"Pizza", "Tacos">>

\* an option: a bare label (id 0, local drafts) or {id, label} (remote polls)
Opt(id, label) == [id |-> id, label |-> label]

\* a poll object held by the client or the Exchange
Poll(id, is_local, options, clid, at) ==
  [id |-> id, is_local |-> is_local, options |-> options,
   created_local_id |-> clid, created_at |-> at]

NoPoll == Poll(Nil, FALSE, <<>>, Nil, 0)

\* stored identity: {self_id, signing_key}, "" for a key that is not stored
NoIdentity == [self_id |-> "", signing_key |-> ""]

\* a self_id and a signing key (a hex string) as the Exchange issues them
SelfId(n) == "self_" \o ToString(n)

SigningKey(k) == "4b0" \o ToString(k)

\* what getExchangeHmacCredsOrNull returns: null, or {self_id, signing_key}
Creds(null, self_id, signing_key) ==
  [null |-> null, self_id |-> self_id, signing_key |-> signing_key]

\* ------------------------------------------------------------------
\* Maps (JSON objects kept in localStorage)
\* ------------------------------------------------------------------
EmptyMap == << >>

Put(m, k, v) == [x \in (DOMAIN m) \cup {k} |-> IF x = k THEN v ELSE m[x]]

Del(m, k) == [x \in (DOMAIN m) \ {k} |-> m[x]]

Has(m, k) == k \in DOMAIN m

\* the elements of a sequence
Range(q) == {q[i] : i \in DOMAIN q}

\* array.filter(keep)
RECURSIVE SelectSeqBy(_, _)
SelectSeqBy(q, keep) ==
  IF q = <<>> THEN <<>>
  ELSE IF Head(q) \in keep THEN <<Head(q)>> \o SelectSeqBy(Tail(q), keep)
       ELSE SelectSeqBy(Tail(q), keep)

\* ------------------------------------------------------------------
\* Trace of the running handler: what it sent, what came back, what it did
\* ------------------------------------------------------------------
Ev(ev, ep, poll, cred, val, opt, status) ==
  [ev |-> ev, ep |-> ep, poll |-> poll, cred |-> cred, val |-> val,
   opt |-> opt, status |-> status]

\* locals of the running handler
T0 ==
  [poll |-> NoPoll, localKey |-> Nil, localChoice |-> "", target |-> NoPoll,
   vpoll |-> NoPoll, label |-> "", option_id |-> 0, voter_token |-> Nil,
   stamp |-> Nil, ret |-> "", status1 |-> 0, then |-> NoPoll]

\* what is kept of an assert or a castVote once it has returned: the poll it
\* was invoked on, the remote poll an assert targeted, whether it purged the
\* draft's local state, whether a vote request of it was accepted, whether
\* an assert had a local vote to carry, and the poll whose voter token the
\* Exchange rejected as invalid
\* solvePowLite before any call of it: the hash of "challenge:n" is
\* hash[n + 1], result is the candidate returned ("" before the return);
\* since counts the candidates tried since the last pause, queue is the task
\* queue of the host's event loop ("ui": a user event, "timer": the
\* setTimeout of a pause), served says that a user event was handled while
\* the search was running
NoPow ==
  [running |-> FALSE, hash |-> <<>>, difficulty |-> [num |-> TRUE, n |-> 0],
   nonce |-> 0, result |-> "", since |-> 0, queue |-> <<>>, served |-> FALSE]

\* a response of an identity endpoint as the handler holds it: r.status and
\* the parsed body (null when the text is not JSON)
NoData == [null |-> TRUE, self_id |-> "", signing_key |-> ""]
NoResp == [status |-> 0, data |-> NoData]

\* the identity panel of a page after boot with no identity stored: the
\* Create button is shown and enabled, no creation runs
Page0 ==
  [createShown |-> TRUE, disabled |-> FALSE, pc |-> "idle",
   identityStatus |-> <<"No identity on this device.">>, r |-> NoResp]

NoSummary ==
  [op |-> "", poll |-> Nil, target |-> Nil, purged |-> FALSE, voted |-> FALSE,
   choice |-> FALSE, rejected |-> Nil]

Summary(lg, tt) ==
  IF lg = <<>> \/ lg[1].ep \notin {"assert", "castVote"} THEN NoSummary
  ELSE [op |-> lg[1].ep,
        poll |-> lg[1].poll,
        target |-> tt.target.id,
        purged |-> \E i \in DOMAIN lg : lg[i].ev = "purge",
        voted |-> \E i \in DOMAIN lg :
                    /\ lg[i].ev = "resp"
                    /\ lg[i].ep = "POST /vote"
                    /\ lg[i].status = 200,
        choice |-> tt.localChoice # "",
        rejected |-> IF \E i \in DOMAIN lg :
                          /\ lg[i].ev = "resp"
                          /\ lg[i].cred = "X-Voter-Token"
                          /\ lg[i].status = 403
                     THEN tt.vpoll.id ELSE Nil]

\* let es = null, no EventSource created, no openPoll suspended.
\* es is 0 for null, else the number of an EventSource in sources;
\* opened is the id openPoll was last called with, erred the number of the
\* EventSource that last reported an error
NoLive ==
  [es |-> 0, sources |-> <<>>, calls |-> <<>>, opened |-> Nil, erred |-> 0]

\* no second invocation
NoParked == [pc |-> "idle", t |-> T0, log |-> <<>>]

VARIABLES
  identity,      \* exchange_self_id / exchange_signing_key
  stampPool,     \* exchange_stamps: array of stamps
  tokens,        \* breadpoll_tokens: poll id -> token
  localPolls,    \* breadpoll_local_polls_v1: array of drafts, newest first
  localVotes,    \* breadpoll_local_votes_v1: poll id -> {byToken, counts}
  lastChoice,    \* breadpoll_remote_last_choice_v1: poll id -> label
  vbPoll,        \* the poll the vote buttons are bound to
  assertPoll,    \* the poll the assert button is bound to
  currentPollId, \* id of the poll shown
  assertOut,     \* text of #assertOut
  pollList,      \* the polls rendered in the list
  remotePolls,   \* Exchange: the polls it holds, in creation order
  spent,         \* Exchange: stamps it accepted a first vote with
  nextStamp,     \* Exchange: number of the next stamp it issues
  nextLocal,     \* makeId(): number of the next draft id
  nextTok,       \* makeId(): number of the next local voter token
  pc,            \* the await the running handler is suspended at
  t,             \* locals of the running handler
  log,           \* trace of the running handler
  last,          \* how the last handler ended (assert, castVote)
  pow,           \* solvePowLite: its arguments, its counter and its result
  pages,         \* the identity panel of each open page, and the Exchange's
                 \* count of the identities it has issued
  live,          \* es, the EventSource objects created, and the openPoll
                 \* invocations suspended at their hydration
  parked         \* pc, t and log of a second handler invocation, suspended
                 \* while the first one runs

vars ==
  <<identity, stampPool, tokens, localPolls, localVotes, lastChoice, vbPoll,
    assertPoll, currentPollId, assertOut, pollList, remotePolls,
    spent, nextStamp, nextLocal, nextTok, pc, t, log, last, pow,
    pages, live, parked>>

\* the state as one record, so that the synchronous segments compose
S ==
  [identity |-> identity, stampPool |-> stampPool, tokens |-> tokens,
   localPolls |-> localPolls, localVotes |-> localVotes,
   lastChoice |-> lastChoice, vbPoll |-> vbPoll, assertPoll |-> assertPoll,
   currentPollId |-> currentPollId, assertOut |-> assertOut,
   pollList |-> pollList,
   remotePolls |-> remotePolls, spent |-> spent, nextStamp |-> nextStamp,
   nextLocal |-> nextLocal, nextTok |-> nextTok, pc |-> pc, t |-> t,
   log |-> log, last |-> last, pow |-> pow, pages |-> pages,
   live |-> live, parked |-> parked]

Set(s) ==
  /\ identity' = s.identity
  /\ stampPool' = s.stampPool
  /\ tokens' = s.tokens
  /\ localPolls' = s.localPolls
  /\ localVotes' = s.localVotes
  /\ lastChoice' = s.lastChoice
  /\ vbPoll' = s.vbPoll
  /\ assertPoll' = s.assertPoll
  /\ currentPollId' = s.currentPollId
  /\ assertOut' = s.assertOut
  /\ pollList' = s.pollList
  /\ remotePolls' = s.remotePolls
  /\ spent' = s.spent
  /\ nextStamp' = s.nextStamp
  /\ nextLocal' = s.nextLocal
  /\ nextTok' = s.nextTok
  /\ pc' = s.pc
  /\ t' = s.t
  /\ log' = s.log
  /\ last' = s.last
  /\ pow' = s.pow
  /\ pages' = s.pages
  /\ live' = s.live
  /\ parked' = s.parked

Init ==
  /\ identity = NoIdentity
  /\ stampPool = <<>>
  /\ tokens = EmptyMap
  /\ localPolls = <<>>
  /\ localVotes = EmptyMap
  /\ lastChoice = EmptyMap
  /\ vbPoll = NoPoll
  /\ assertPoll = NoPoll
  /\ currentPollId = Nil
  /\ assertOut = ""
  /\ pollList = <<>>
  /\ remotePolls = <<>>
  /\ spent = {}
  /\ nextStamp = 1
  /\ nextLocal = 1
  /\ nextTok = 1
  /\ pc = "idle"
  /\ t = T0
  /\ log = <<>>
  /\ last = NoSummary
  /\ pow = NoPow
  /\ pages = [issued |-> 0, page |-> [p \in 1..MaxPages |-> Page0]]
  /\ live = NoLive
  /\ parked = NoParked

\* ------------------------------------------------------------------
\* Identity store
\* ------------------------------------------------------------------
\* variant: the stored keys are returned without the check that both are set
getExchangeHmacCredsNeverNull(s) ==
  Creds(FALSE, s.identity.self_id, s.identity.signing_key)

\* null unless both self_id and signing_key are stored
getExchangeHmacCredsOrNull(s) ==
  IF s.identity.self_id = "" \/ s.identity.signing_key = ""
  THEN Creds(TRUE, "", "")
  ELSE Creds(FALSE, s.identity.self_id, s.identity.signing_key)

\* ------------------------------------------------------------------
\* Voter tokens (remote voter tokens and local device tokens share the map)
\* ------------------------------------------------------------------
\* variant: the lookup finds no token
getTokenFindsNone(s, pollId) == Nil

getToken(s, pollId) == IF Has(s.tokens, pollId) THEN s.tokens[pollId] ELSE Nil

\* variant: the token is not written to the store
setTokenNotStored(s, pollId, token) == s

setToken(s, pollId, token) == [s EXCEPT !.tokens = Put(@, pollId, token)]

\* creates "localtok_<id>" when the poll has no token yet
\* variant: a new token for every call
ensureLocalTokenAlwaysNew(s, pollId) ==
  [setToken(s, pollId, LocalTok(s.nextTok)) EXCEPT !.nextTok = @ + 1]

ensureLocalToken(s, pollId) ==
  IF getToken(s, pollId) # Nil THEN s
  ELSE [setToken(s, pollId, LocalTok(s.nextTok)) EXCEPT !.nextTok = @ + 1]

\* ------------------------------------------------------------------
\* Local polls
\* ------------------------------------------------------------------
addLocalPoll(s, p) == [s EXCEPT !.localPolls = <<p>> \o @]

removeLocalPoll(s, id) ==
  [s EXCEPT !.localPolls =
     SelectSeqBy(@, {p \in Range(s.localPolls) : p.id # id})]

getLocalPoll(s, id) ==
  IF \E i \in DOMAIN s.localPolls : s.localPolls[i].id = id
  THEN s.localPolls[CHOOSE i \in DOMAIN s.localPolls :
                      /\ s.localPolls[i].id = id
                      /\ \A j \in 1..(i - 1) : s.localPolls[j].id # id]
  ELSE NoPoll

\* ------------------------------------------------------------------
\* Local votes and results
\* ------------------------------------------------------------------
EmptyVoteState == [byToken |-> EmptyMap, counts |-> EmptyMap]

\* (options || []).map(o => o?.label ?? o)
LabelsOf(options) == {options[i].label : i \in DOMAIN options}

\* variant: counts[opt] = 0 for every option, also one that has a count
FillCountsReset(counts, labels) ==
  [l \in (DOMAIN counts) \cup labels |->
     IF l \in labels THEN 0 ELSE counts[l]]

\* counts[opt] = 0 for every option that has no count yet
FillCounts(counts, labels) ==
  [l \in (DOMAIN counts) \cup labels |->
     IF l \in DOMAIN counts THEN counts[l] ELSE 0]

\* reads the vote state of a poll and writes it back with the counts of the
\* current options filled in
getLocalVoteState(s, pollId, options) ==
  LET st == IF Has(s.localVotes, pollId) THEN s.localVotes[pollId]
            ELSE EmptyVoteState
      st1 == [st EXCEPT !.counts = FillCounts(@, LabelsOf(options))]
  IN [s EXCEPT !.localVotes = Put(@, pollId, st1)]

\* variant: a previous choice is never seen
HasPrevNever(byToken, counts, token) == FALSE

\* prev && typeof st.counts[prev] === "number": the token has a previous
\* choice (a non-empty string) and that choice has a count
HasPrev(byToken, counts, token) ==
  /\ Has(byToken, token)
  /\ byToken[token] # ""
  /\ Has(counts, byToken[token])

setLocalVote(s, pollId, token, choice, options) ==
  LET st == IF Has(s.localVotes, pollId) THEN s.localVotes[pollId]
            ELSE EmptyVoteState
      c0 == FillCounts(st.counts, LabelsOf(options))
      c1 == IF HasPrev(st.byToken, c0, token)
            THEN [c0 EXCEPT ![st.byToken[token]] =
                    IF @ - 1 > 0 THEN @ - 1 ELSE 0]
            ELSE c0
      c2 == FillCounts(c1, {choice})
      c3 == [c2 EXCEPT ![choice] = @ + 1]
      st1 == [byToken |-> Put(st.byToken, token, choice), counts |-> c3]
  IN [s EXCEPT !.localVotes = Put(@, pollId, st1)]

\* the store after buildLocalResults(poll): it goes through getLocalVoteState
buildLocalResults(s, poll) == getLocalVoteState(s, poll.id, poll.options)

\* variant: the total is the number of labels counted
SumCountsKeys(counts) == Cardinality(DOMAIN counts)

\* Object.values(counts).reduce((a, b) => a + b, 0)
RECURSIVE SumCounts(_)
SumCounts(counts) ==
  IF DOMAIN counts = {} THEN 0
  ELSE LET l == CHOOSE x \in DOMAIN counts : TRUE
       IN counts[l] + SumCounts([x \in (DOMAIN counts) \ {l} |-> counts[x]])

\* what buildLocalResults(poll) returns: {poll_id, total_votes, counts}
LocalResults(s, poll) ==
  LET counts == buildLocalResults(s, poll).localVotes[poll.id].counts
  IN [poll_id |-> poll.id, total_votes |-> SumCounts(counts),
      counts |-> counts]

\* the store after getLocalSelectedChoice(poll): it goes through
\* ensureLocalToken
getLocalSelectedChoice(s, poll) ==
  IF poll.id = Nil THEN s ELSE ensureLocalToken(s, poll.id)

\* the label getLocalSelectedChoice(poll) returns, "" for null
LocalSelectedChoice(s, poll) ==
  LET s1 == getLocalSelectedChoice(s, poll)
      token == getToken(s1, poll.id)
  IN IF /\ poll.id # Nil
        /\ Has(s1.localVotes, poll.id)
        /\ Has(s1.localVotes[poll.id].byToken, token)
     THEN s1.localVotes[poll.id].byToken[token]
     ELSE ""

\* removes the draft, its vote state and its token entry
purgeLocalPollState(s, localPollId) ==
  IF localPollId = Nil THEN s
  ELSE LET s1 == removeLocalPoll(s, localPollId)
       IN [s1 EXCEPT !.localVotes = Del(@, localPollId),
                     !.tokens = Del(@, localPollId)]

setRemoteLastChoice(s, pollId, label) ==
  [s EXCEPT !.lastChoice = Put(@, pollId, label)]

\* ------------------------------------------------------------------
\* Stamp pool
\* ------------------------------------------------------------------
getExchangeStampPool(s) == s.stampPool

\* variant: every stamp of the list, pooled already or not
NewStampsAll(list, have) == SelectSeq(list, LAMBDA e : e[1] = "s")

\* stamps of a list that are strings starting with "s_" and not in have
RECURSIVE NewStamps(_, _)
NewStamps(list, have) ==
  IF list = <<>> THEN <<>>
  ELSE IF Head(list)[1] = "s" /\ Head(list) \notin have
       THEN <<Head(list)>> \o NewStamps(Tail(list), have \cup {Head(list)})
       ELSE NewStamps(Tail(list), have)

\* merges into the pool through a Set: insertion order, no duplicates
addStampsToPool(s, newStamps) ==
  LET cur == getExchangeStampPool(s)
  IN [s EXCEPT !.stampPool = cur \o NewStamps(newStamps, Range(cur))]

clearExchangeStampPool(s) == [s EXCEPT !.stampPool = <<>>]

\* values Math.random() is drawn from: one per index of the largest pool
RandomDraws == 1..MaxStamps

\* values Math.random() is drawn from in the stamp pool specification
PoolDraws == 1..PoolStamps

\* the definition in force (the second one, which shadows the first):
\* a random member of the pool, which stays in the pool
pickOneStampOrNull(pool, rnd) ==
  IF pool = <<>> THEN Nil ELSE pool[((rnd - 1) % Len(pool)) + 1]

\* ------------------------------------------------------------------
\* Handlers: common steps
\* ------------------------------------------------------------------
\* a handler is invoked: its trace starts
StartOp(s, name, pollId) ==
  [s EXCEPT !.t = T0, !.log = <<Ev("start", name, pollId, "", Nil, 0, 0)>>]

\* the handler returns: its trace is summed up and dropped
End(s) ==
  [s EXCEPT !.pc = "idle", !.t = T0, !.log = <<>>,
            !.last = Summary(s.log, s.t)]

\* fetch(...): the request goes out and the handler awaits the response
Send(s, at, ep, poll, cred, val, opt) ==
  [s EXCEPT !.pc = at,
            !.log = Append(@, Ev("req", ep, poll, cred, val, opt, 0))]

\* EXCHANGE_API, as the URL parser splits it
EXCHANGE_API ==
  [origin |-> "https://exchange.breadstandard.com", pathname |-> "/api"]

\* new URL(EXCHANGE_API).pathname without a trailing "/"
ApiPrefix == EXCHANGE_API.pathname

\* Date.now() and makeNonceHex(12) of a signed request of a handler: the
\* values are not told apart there, each request has its own
Timestamp == "Date.now()"

Nonce == "makeNonceHex(12)"

\* String(method).toUpperCase()
toUpperCase(method) ==
  CASE method = "post" -> "POST"
    [] method = "get" -> "GET"
    [] OTHER -> method

\* JSON.stringify(body): the text of exactly that value
JSONstringify(body) == ToString(body)

\* sha256Hex(text): a digest of exactly that text
sha256Hex(text) == "sha256(" \o text \o ")"

\* hmacSha256Hex(keyHex, message): a code of exactly that message under
\* exactly that key
hmacSha256Hex(keyHex, message) == <<"hmac", keyHex, message>>

\* variant: the nonce is left out of the base
SigningBaseNoNonce(method, path, ts, nonce, bodyHash) ==
  toUpperCase(method) \o "\n" \o path \o "\n" \o ts \o "\n" \o bodyHash

\* the canonical base: uppercased method, path, timestamp, nonce and body
\* hash, joined by newlines
SigningBase(method, path, ts, nonce, bodyHash) ==
  toUpperCase(method) \o "\n" \o path \o "\n" \o ts \o "\n" \o nonce
    \o "\n" \o bodyHash

\* variant: the stored key is sent in the place of the self_id
buildHmacHeadersKeyAsId(s, method, path, bodyObjOrNull, ts, nonce) ==
  LET creds == getExchangeHmacCredsOrNull(s)
      bodyText == IF bodyObjOrNull = Nil THEN ""
                  ELSE JSONstringify(bodyObjOrNull)
      base == SigningBase(method, path, ts, nonce, sha256Hex(bodyText))
  IN [throws |-> creds.null,
      headers |-> [h \in {"X-Self-ID", "X-Timestamp", "X-Nonce",
                          "X-Signature"} |->
                     CASE h = "X-Self-ID" -> creds.signing_key
                       [] h = "X-Timestamp" -> ts
                       [] h = "X-Nonce" -> nonce
                       [] OTHER -> hmacSha256Hex(creds.signing_key, base)]]

\* variant: the headers carry no signature of the stored key
buildHmacHeadersKeyless(s, method, path, bodyObjOrNull, ts, nonce) ==
  LET creds == getExchangeHmacCredsOrNull(s)
  IN [throws |-> FALSE,
      headers |-> [h \in {"X-Self-ID", "X-Timestamp", "X-Nonce"} |->
                     CASE h = "X-Self-ID" -> creds.self_id
                       [] h = "X-Timestamp" -> ts
                       [] OTHER -> nonce]]

\* buildHmacHeaders(method, path, body), with ts and nonce the values that
\* Date.now() and makeNonceHex(12) give in the call: throws without an
\* identity; else the four headers, the signature being the HMAC under the
\* stored key of the canonical base
buildHmacHeaders(s, method, path, bodyObjOrNull, ts, nonce) ==
  LET creds == getExchangeHmacCredsOrNull(s)
      bodyText == IF bodyObjOrNull = Nil THEN ""
                  ELSE JSONstringify(bodyObjOrNull)
      base == SigningBase(method, path, ts, nonce, sha256Hex(bodyText))
  IN IF creds.null THEN [throws |-> TRUE, headers |-> <<>>]
     ELSE [throws |-> FALSE,
           headers |-> [h \in {"X-Self-ID", "X-Timestamp", "X-Nonce",
                               "X-Signature"} |->
                          CASE h = "X-Self-ID" -> creds.self_id
                            [] h = "X-Timestamp" -> ts
                            [] h = "X-Nonce" -> nonce
                            [] OTHER -> hmacSha256Hex(creds.signing_key, base)]]

\* variant: the path is signed without the API prefix
SignPathBare(path) == path

\* `${apiPrefix}${path}`: the path the signature is made over
SignPath(path) == ApiPrefix \o path

\* what fetch is called with: the method, the URL `${EXCHANGE_API}${path}`
\* and the body: undefined (nothing is sent) for a null body, else its text
Transport(method, path, bodyObj) ==
  [method |-> method,
   url |-> [EXCHANGE_API EXCEPT !.pathname = @ \o path],
   body |-> IF bodyObj = Nil THEN [undefined |-> TRUE, text |-> ""]
            ELSE [undefined |-> FALSE, text |-> JSONstringify(bodyObj)]]

\* exchangeFetchAuthed(path, {method, body}) with the timestamp and nonce
\* of its signature: the request is signed over the prefixed path and goes
\* out with the headers; when signing throws, nothing goes out and the
\* error ends the caller (every caller has checked for an identity before,
\* and no handler removes one)
exchangeFetchAuthedAt(s, at, method, path, poll, bodyObj, ts, nonce) ==
  LET m == toUpperCase(method)
      h == buildHmacHeaders(s, m, SignPath(path), bodyObj, ts, nonce)
  IN IF h.throws
     THEN [s EXCEPT !.pc = "idle", !.t = T0,
                    !.log = <<Ev("throw", m \o " " \o path, poll, "", Nil, 0, 0)>>]
     ELSE Send(s, at, m \o " " \o path, poll, "HMAC", h.headers,
               Transport(m, path, bodyObj))

\* exchangeFetchAuthed as the handlers call it
exchangeFetchAuthed(s, at, method, path, poll, bodyObj) ==
  exchangeFetchAuthedAt(s, at, method, path, poll, bodyObj, Timestamp, Nonce)

\* the response of the request in flight arrives
Recv(s, status, val) ==
  LET rq == s.log[Len(s.log)]
  IN [s EXCEPT !.log =
        Append(@, Ev("resp", rq.ep, rq.poll, rq.cred, val, rq.opt, status))]

\* something the handler does to the store
Note(s, what, id) ==
  [s EXCEPT !.log = Append(@, Ev(what, "", id, "", Nil, 0, 0))]

\* outcomes of GET /polls: {polls: [...]}, a bare array, a non-2xx status,
\* a transport failure
IndexKinds == {"polls", "array", "error", "neterr"}

\* HTTP status of an index response (0: no response)
IndexStatus(kind) ==
  IF kind = "neterr" THEN 0 ELSE IF kind = "error" THEN 500 ELSE 200

\* Array.isArray(list?.polls) ? list.polls : [] of an ok response
\* (assert lookup, openPoll hydration); refreshPolls returns on a non-array
IndexPolls(s, kind) == IF kind = "polls" THEN s.remotePolls ELSE <<>>

\* ------------------------------------------------------------------
\* openPoll
\* ------------------------------------------------------------------
openPoll(s, p) ==
  LET pollId == p.id
      isLocal == p.is_local \/ startsWithLocal(pollId)
      s0 == [s EXCEPT !.currentPollId = pollId, !.assertOut = "",
                      !.vbPoll = NoPoll]
  IN IF pollId = Nil THEN End(s)
     ELSE IF isLocal
     THEN LET found == getLocalPoll(s0, pollId)
              full == [(IF found # NoPoll THEN found ELSE p)
                         EXCEPT !.is_local = TRUE]
              s1 == [s0 EXCEPT !.assertPoll = full]
              s2 == getLocalSelectedChoice(s1, full)
              s3 == [s2 EXCEPT !.vbPoll = full]
          IN End(buildLocalResults(s3, full))
     ELSE LET full == [p EXCEPT !.is_local = FALSE]
              s1 == [s0 EXCEPT !.assertPoll = full, !.vbPoll = full,
                               !.t.then = full]
          IN Send(s1, "hydrate", "GET /polls", Nil, "", Nil, 0)

\* the hydration of a remote poll: the index answered
openPollHydrated(s, kind) ==
  LET s0 == Recv(s, IndexStatus(kind), Nil)
      polls == IndexPolls(s0, kind)
      pollId == s0.t.then.id
      hit == {i \in DOMAIN polls : polls[i].id = pollId}
  IN IF hit = {} THEN End(s0)
     ELSE LET found == polls[CHOOSE i \in hit : \A j \in hit : i <= j]
              full == [found EXCEPT !.is_local = FALSE]
          IN End([s0 EXCEPT !.vbPoll = full, !.assertPoll = full])

\* ------------------------------------------------------------------
\* refreshPolls
\* ------------------------------------------------------------------
\* renders the local drafts, then asks the Exchange for its polls;
\* then is the poll the caller opens afterwards (NoPoll: none)
refreshPolls(s, then) ==
  LET s1 == [s EXCEPT !.pollList = s.localPolls, !.t.then = then]
  IN Send(s1, "refresh", "GET /polls", Nil, "", Nil, 0)

\* the remote polls merged behind the local ones
MergePolls(local, remote) ==
  local \o SelectSeqBy(remote,
             {p \in Range(remote) : \A i \in DOMAIN local : local[i].id # p.id})

refreshPollsListed(s, kind) ==
  LET s0 == Recv(s, IndexStatus(kind), Nil)
      s1 == IF kind = "polls"
            THEN [s0 EXCEPT !.pollList = MergePolls(s0.localPolls, s0.remotePolls)]
            ELSE s0
  IN IF s1.t.then = NoPoll THEN End(s1) ELSE openPoll(s1, s1.t.then)

\* ------------------------------------------------------------------
\* Exchange: what it answers
\* ------------------------------------------------------------------
\* POST /stamp: the body cannot be read (transport failure, no JSON), or
\* it lists the stamps issued: none, or one new stamp
MintResponses(s) ==
  {[throws |-> TRUE, issued |-> <<>>], [throws |-> FALSE, issued |-> <<>>]}
  \cup (IF s.nextStamp <= MaxStamps
        THEN {[throws |-> FALSE, issued |-> <<Stamp(s.nextStamp)>>]}
        ELSE {})

\* the Exchange after answering a mint request
ExchangeMinted(s, resp) ==
  [s EXCEPT !.nextStamp = @ + Len(resp.issued)]

\* POST /polls/:id/vote: no response (status 0), accepted (with or without
\* a voter_token), or rejected: with 403 for the credential (a stamp it does
\* not take, "invalid X-Voter-Token" for a token), with 500 for anything
\* else; a stamp that was already spent is not accepted again
VoteResponses(s) ==
  LET rq == s.log[Len(s.log)]
      fresh == ~(rq.cred = "X-Stamp" /\ rq.val \in s.spent)
  IN {[status |-> 0, token |-> Nil], [status |-> 403, token |-> Nil],
      [status |-> 500, token |-> Nil]}
     \cup (IF fresh
           THEN {[status |-> 200, token |-> Nil],
                 [status |-> 200, token |-> VoterToken(rq.poll)]}
           ELSE {})

\* the Exchange after answering a vote request
ExchangeVoted(s, resp) ==
  LET rq == s.log[Len(s.log)]
  IN IF resp.status = 200 /\ rq.cred = "X-Stamp"
     THEN [s EXCEPT !.spent = @ \cup {rq.val}]
     ELSE s

\* ------------------------------------------------------------------
\* fetchStampsFromExchange, after the response
\* ------------------------------------------------------------------
fetchStampsFromExchange(s, resp) ==
  LET s0 == Recv(ExchangeMinted(s, resp), IF resp.throws THEN 0 ELSE 200, Nil)
  IN IF ~resp.throws /\ resp.issued # <<>>
     THEN addStampsToPool(s0, resp.issued)
     ELSE s0

\* ------------------------------------------------------------------
\* assert: the end (purge, refresh, open the remote poll)
\* ------------------------------------------------------------------
assertPurgeAndOpen(s) ==
  LET s1 == Note(purgeLocalPollState(s, s.t.poll.id), "purge", s.t.poll.id)
  IN refreshPolls(s1, Poll(s.t.target.id, FALSE, <<>>, Nil, 0))

\* ------------------------------------------------------------------
\* castExchangeVoteByLabel and its callers' continuations
\* ------------------------------------------------------------------
\* statusEl.textContent = text: assert passes #assertOut; the #voteStatus
\* line castVote passes is not part of the state
SetStatus(s, text) ==
  IF s.t.ret = "castVote" THEN s ELSE [s EXCEPT !.assertOut = text]

VoteFailedText(status) ==
  IF status = 403 THEN "Vote failed (403)." ELSE "Vote failed (500)."

\* variant: assert returns when the carried vote failed, without purging
VoteReturnStopOnFailure(s, res) ==
  IF s.t.ret = "castVote"
  THEN IF res = "ok"
       THEN refreshPolls(setRemoteLastChoice(s, s.t.poll.id, s.t.label),
                         Poll(s.t.poll.id, FALSE, <<>>, Nil, 0))
       ELSE End(s)
  ELSE IF res = "ok"
       THEN assertPurgeAndOpen([s EXCEPT !.vbPoll = s.t.vpoll])
       ELSE End(s)

\* castExchangeVoteByLabel returned res ("ok", "fail") or threw ("throw"):
\* the rest of castVote, or of assert's carry-forward
VoteReturn(s, res) ==
  IF s.t.ret = "castVote"
  THEN IF res = "ok"
       THEN refreshPolls(setRemoteLastChoice(s, s.t.poll.id, s.t.label),
                         Poll(s.t.poll.id, FALSE, <<>>, Nil, 0))
       ELSE End(s)
  ELSE assertPurgeAndOpen(
         IF res = "throw"
         THEN [s EXCEPT !.assertOut = "Vote carry failed (network). Poll is live."]
         ELSE [s EXCEPT !.vbPoll = s.t.vpoll])

\* opts.findIndex(o => (o?.label ?? o) === choiceLabel) + 1
OptionIndex(options, label) ==
  IF \E i \in DOMAIN options : options[i].label = label
  THEN CHOOSE i \in DOMAIN options :
         /\ options[i].label = label
         /\ \A j \in 1..(i - 1) : options[j].label # label
  ELSE 0

\* variant: the ordinal of the option is sent even when the option has an id
OptionIdOrdinal(options, idx) == idx

\* the option's id when it has one, else its ordinal
OptionId(options, idx) ==
  IF options[idx].id # 0 THEN options[idx].id ELSE idx

\* variant: a 403 is retried whatever credential the first vote carried
ShouldRetryAnyCredential(voter_token, status) == status = 403

\* a first vote rejected with 403 is retried
ShouldRetry(voter_token, status) == voter_token = Nil /\ status = 403

\* variant: the vote request goes out even when no stamp was obtained
StampPickedSendsAnyway(s, stage, stamp) ==
  Send([s EXCEPT !.t.stamp = stamp],
       IF stage = 1 THEN "vote1" ELSE "vote2",
       "POST /vote", s.t.vpoll.id, "X-Stamp", stamp, s.t.option_id)

\* getOrFetchOneStampOrNull returned stamp (Nil for null); stage 1 is the
\* first vote, stage 2 the retry
StampPicked(s, stage, stamp) ==
  IF stamp = Nil
  THEN IF stage = 1 THEN VoteReturn(s, "fail")
       ELSE VoteReturn(SetStatus(s, VoteFailedText(s.t.status1)), "fail")
  ELSE Send([s EXCEPT !.t.stamp = stamp],
            IF stage = 1 THEN "vote1" ELSE "vote2",
            "POST /vote", s.t.vpoll.id, "X-Stamp", stamp, s.t.option_id)

\* variant: mints whenever an identity is stored, also with stamps pooled
getOrFetchBranchMintFirst(s) ==
  IF ~getExchangeHmacCredsOrNull(s).null THEN "mint"
  ELSE IF getExchangeStampPool(s) # <<>> THEN "pick" ELSE "null"

\* what getOrFetchOneStampOrNull does before it awaits anything: it picks
\* from a pool that has stamps, returns null without an identity, and
\* mints otherwise
getOrFetchBranch(s) ==
  IF getExchangeStampPool(s) # <<>> THEN "pick"
  ELSE IF getExchangeHmacCredsOrNull(s).null THEN "null"
  ELSE "mint"

\* what getOrFetchOneStampOrNull returns once its mint was answered: null
\* when fetchStampsFromExchange threw, a stamp of the pool otherwise
getOrFetchResult(s1, resp, rnd) ==
  IF resp.throws THEN Nil
  ELSE pickOneStampOrNull(getExchangeStampPool(s1), rnd)

getOrFetchOneStampOrNull(s, stage, rnd) ==
  LET branch == getOrFetchBranch(s)
  IN IF branch = "pick"
     THEN StampPicked(s, stage,
                      pickOneStampOrNull(getExchangeStampPool(s), rnd))
     ELSE IF branch = "null"
     THEN StampPicked(s, stage, Nil)
     ELSE exchangeFetchAuthed(s, IF stage = 1 THEN "vmint1" ELSE "vmint2",
                              "POST", "/stamp", Nil, <<>>)

\* the mint getOrFetchOneStampOrNull asked for was answered
getOrFetchMinted(s, stage, resp, rnd) ==
  LET s1 == fetchStampsFromExchange(s, resp)
  IN StampPicked(s1, stage, getOrFetchResult(s1, resp, rnd))

\* variant: the id is not tested for the local prefix
castExchangeVoteByLabelAnyId(s, poll, choiceLabel, ret, rnd) ==
  LET pollId == poll.id
      s0 == [s EXCEPT !.t.vpoll = poll, !.t.label = choiceLabel, !.t.ret = ret]
      voter_token == getToken(s0, pollId)
      idx == OptionIndex(poll.options, choiceLabel)
  IN IF pollId = Nil \/ idx = 0 THEN VoteReturn(s0, "fail")
     ELSE LET s1 == [s0 EXCEPT !.t.option_id = OptionId(poll.options, idx),
                               !.t.voter_token = voter_token]
          IN IF voter_token # Nil
             THEN Send(s1, "vote1", "POST /vote", pollId, "X-Voter-Token",
                       voter_token, s1.t.option_id)
             ELSE getOrFetchOneStampOrNull(s1, 1, rnd)

castExchangeVoteByLabel(s, poll, choiceLabel, ret, rnd) ==
  LET pollId == poll.id
      s0 == [s EXCEPT !.t.vpoll = poll, !.t.label = choiceLabel, !.t.ret = ret]
      voter_token == getToken(s0, pollId)
      idx == OptionIndex(poll.options, choiceLabel)
  IN IF startsWithLocal(pollId)
     THEN VoteReturn(SetStatus(s0, "This poll is local-only (not on exchange yet)."),
                     "fail")
     ELSE IF pollId = Nil \/ idx = 0 THEN VoteReturn(s0, "fail")
     ELSE LET s1 == [s0 EXCEPT !.t.option_id = OptionId(poll.options, idx),
                               !.t.voter_token = voter_token]
          IN IF voter_token # Nil
             THEN Send(s1, "vote1", "POST /vote", pollId, "X-Voter-Token",
                       voter_token, s1.t.option_id)
             ELSE getOrFetchOneStampOrNull(s1, 1, rnd)

\* a successful vote: the returned voter token and the last choice are stored
VoteAccepted(s, resp) ==
  LET s1 == IF resp.token # Nil THEN setToken(s, s.t.vpoll.id, resp.token)
            ELSE s
  IN VoteReturn(setRemoteLastChoice(s1, s.t.vpoll.id, s.t.label), "ok")

\* the first vote request was answered
castExchangeVoteAnswered(s, resp, rnd) ==
  LET s0 == [Recv(ExchangeVoted(s, resp), resp.status, resp.token)
               EXCEPT !.t.status1 = resp.status]
  IN IF resp.status = 0 THEN VoteReturn(s0, "throw")
     ELSE IF resp.status = 200 THEN VoteAccepted(s0, resp)
     ELSE IF ShouldRetry(s0.t.voter_token, resp.status)
     THEN getOrFetchOneStampOrNull(
            Note(clearExchangeStampPool(s0), "clear", Nil), 2, rnd)
     ELSE VoteReturn(SetStatus(s0, VoteFailedText(resp.status)), "fail")

\* the retried vote request was answered
castExchangeVoteRetried(s, resp) ==
  LET s0 == Recv(ExchangeVoted(s, resp), resp.status, resp.token)
  IN IF resp.status = 200 THEN VoteAccepted(s0, resp)
     ELSE VoteReturn(SetStatus(s0, VoteFailedText(s0.t.status1)), "fail")

\* ------------------------------------------------------------------
\* Exchange: poll creation
\* ------------------------------------------------------------------
\* option ids the Exchange assigns: 10 + ordinal
OptionIdBases == {10}

\* POST /polls: status 0 is a transport failure or an unreadable body;
\* created says whether the Exchange stored the poll, hasId whether the
\* response carries poll.id
CreateResponses(s) ==
  {[status |-> 0, created |-> FALSE, hasId |-> FALSE, base |-> 0],
   [status |-> 500, created |-> FALSE, hasId |-> FALSE, base |-> 0]}
  \cup (IF Len(s.remotePolls) < MaxRemote
        THEN {[status |-> st, created |-> TRUE, hasId |-> st = 200 /\ h,
               base |-> b] :
                st \in {0, 200}, h \in BOOLEAN, b \in OptionIdBases}
        ELSE {})

\* the poll the Exchange stores for a creation payload
CreatedPoll(s, resp) ==
  LET n == Len(s.remotePolls) + 1
      labels == s.t.poll.options
  IN Poll(RemoteId(n), FALSE,
          [i \in DOMAIN labels |-> Opt(resp.base + i, labels[i].label)],
          s.t.localKey, n)

ExchangeCreated(s, resp) ==
  IF resp.created
  THEN [s EXCEPT !.remotePolls = Append(@, CreatedPoll(s, resp))]
  ELSE s

\* ------------------------------------------------------------------
\* assertPollToExchange
\* ------------------------------------------------------------------
\* step 3: the idempotent-merge lookup goes out
assertLookup(s) == Send(s, "alist", "GET /polls", Nil, "", Nil, 0)

\* step 4: the signed creation request goes out
assertCreate(s) ==
  exchangeFetchAuthed(s, "apost", "POST", "/polls", s.t.localKey,
                      <<"created_local_id", s.t.localKey>>)

assertPollToExchange(s, localPoll) ==
  LET pollId == localPoll.id
      localKey == IF localPoll.created_local_id # Nil
                  THEN localPoll.created_local_id ELSE pollId
      isLocal == localPoll.is_local \/ startsWithLocal(pollId)
      s0 == [s EXCEPT !.assertOut = "Asserting...", !.t.poll = localPoll,
                      !.t.localKey = localKey, !.t.ret = "assert"]
  IN IF ~isLocal THEN End([s0 EXCEPT !.assertOut = "Already asserted."])
     ELSE IF getExchangeHmacCredsOrNull(s0).null
     THEN End([s0 EXCEPT !.assertOut =
                 "Missing identity: create/import an Exchange identity first."])
     ELSE LET s1 == [getLocalSelectedChoice(s0, localPoll) EXCEPT
                       !.t.localChoice = LocalSelectedChoice(s0, localPoll)]
          IN IF getExchangeStampPool(s1) = <<>>
             THEN exchangeFetchAuthed(
                    [s1 EXCEPT !.assertOut = "Fetching stamps..."],
                    "amint", "POST", "/stamp", Nil, <<>>)
             ELSE assertLookup([s1 EXCEPT !.assertOut = "Stamps stored. Asserting..."])

assertMintedStopOnFailure(s, resp) ==
  LET s1 == fetchStampsFromExchange(s, resp)
  IN IF resp.throws
     THEN End([s1 EXCEPT !.assertOut = "Stamp fetch failed."])
     ELSE assertLookup([s1 EXCEPT !.assertOut = "Stamps stored. Asserting..."])

\* step 2 answered: a failed mint does not stop the assert
assertMinted(s, resp) ==
  LET s1 == fetchStampsFromExchange(s, resp)
  IN assertLookup([s1 EXCEPT !.assertOut =
                     IF resp.throws THEN "Stamp fetch failed (continuing assert)..."
                     ELSE "Stamps stored. Asserting..."])

\* String(created_at || ""): the decimal digits of a number, "" for 0 and
\* for a missing field
RECURSIVE Decimal(_)
Decimal(n) == IF n < 10 THEN <<n>> ELSE Decimal(n \div 10) \o <<n % 10>>
CreatedAtString(p) == IF p.created_at = 0 THEN <<>> ELSE Decimal(p.created_at)

\* a.localeCompare(b) for strings of digits: the first digit that differs
\* decides, a proper prefix comes first
RECURSIVE localeCompare(_, _)
localeCompare(a, b) ==
  IF a = <<>> THEN (IF b = <<>> THEN 0 ELSE -1)
  ELSE IF b = <<>> THEN 1
  ELSE IF Head(a) < Head(b) THEN -1
  ELSE IF Head(a) > Head(b) THEN 1
  ELSE localeCompare(Tail(a), Tail(b))

\* polls.filter(p => String(p?.meta?.created_local_id || "") === String(localKey))
Matches(polls, localKey) ==
  {i \in DOMAIN polls : polls[i].created_local_id = localKey}

\* matches.sort((a, b) => String(b.created_at).localeCompare(String(a.created_at)))[0]:
\* the match whose created_at string sorts last, the first of them in index
\* order (the sort is stable)
NewestMatch(polls, matches) ==
  polls[CHOOSE i \in matches :
          \A j \in matches :
            LET c == localeCompare(CreatedAtString(polls[j]), CreatedAtString(polls[i]))
            IN c < 0 \/ (c = 0 /\ i <= j)]

\* step 3 answered
assertLookedUp(s, kind) ==
  LET s0 == Recv(s, IndexStatus(kind), Nil)
      polls == IndexPolls(s0, kind)
      matches == Matches(polls, s0.t.localKey)
  IN IF matches = {} THEN assertCreate(s0)
     ELSE LET s1 == [s0 EXCEPT !.t.target = NewestMatch(polls, matches)]
          IN IF s1.t.localChoice # ""
             THEN Send([s1 EXCEPT !.assertOut =
                          "Already on Exchange - casting your vote..."],
                       "alist2", "GET /polls", Nil, "", Nil, 0)
             ELSE assertPurgeAndOpen([s1 EXCEPT !.assertOut =
                                        "Already on Exchange - opening..."])

\* matched path: the second index fetch (for the options) answered
assertFetchedRemote(s, kind, rnd) ==
  LET s0 == Recv(s, IndexStatus(kind), Nil)
      polls2 == IndexPolls(s0, kind)
      hit == {i \in DOMAIN polls2 : polls2[i].id = s0.t.target.id}
  IN IF kind = "neterr"
     THEN assertPurgeAndOpen([s0 EXCEPT !.assertOut =
                                "Vote carry failed (network). Poll is live."])
     ELSE IF hit = {} THEN assertPurgeAndOpen(s0)
     ELSE castExchangeVoteByLabel(s0,
            polls2[CHOOSE i \in hit : \A j \in hit : i <= j],
            s0.t.localChoice, "assert", rnd)

\* variant: a 2xx creation response is taken as live without looking for
\* poll.id
CreateOutcomeNoIdCheck(resp) ==
  IF resp.status = 0 THEN "network"
  ELSE IF resp.status # 200 THEN "rejected"
  ELSE "live"

\* how the creation ended: "network", "rejected", "noid" or "live"
CreateOutcome(resp) ==
  IF resp.status = 0 THEN "network"
  ELSE IF resp.status # 200 THEN "rejected"
  ELSE IF ~resp.hasId THEN "noid"
  ELSE "live"

\* step 4 answered
assertCreated(s, resp, rnd) ==
  LET remotePoll == CreatedPoll(s, resp)
      s0 == Recv(ExchangeCreated(s, resp), resp.status,
                 IF resp.hasId THEN remotePoll.id ELSE Nil)
      how == CreateOutcome(resp)
  IN IF how = "network"
     THEN End([s0 EXCEPT !.assertOut = "Assert failed (network error)."])
     ELSE IF how = "rejected"
     THEN End([s0 EXCEPT !.assertOut = "Assert failed (500)."])
     ELSE IF how = "noid"
     THEN End([s0 EXCEPT !.assertOut = "Assert ok, but response missing poll id."])
     ELSE LET s1 == [s0 EXCEPT !.t.target = remotePoll]
          IN IF s1.t.localChoice # ""
             THEN castExchangeVoteByLabel(
                    [s1 EXCEPT !.assertOut = "Poll live - casting your vote..."],
                    remotePoll, s1.t.localChoice, "assert", rnd)
             ELSE assertPurgeAndOpen([s1 EXCEPT !.assertOut = "Poll live on Exchange."])

\* ------------------------------------------------------------------
\* castVote
\* ------------------------------------------------------------------
castVote(s, poll, labelForUI, rnd) ==
  LET pollId == poll.id
      isLocal == poll.is_local \/ startsWithLocal(pollId)
      s0 == [s EXCEPT !.t.poll = poll]
  IN IF pollId = Nil THEN End(s0)
     ELSE IF isLocal
     THEN LET s1 == ensureLocalToken(s0, pollId)
              s2 == setLocalVote(s1, pollId, getToken(s1, pollId), labelForUI,
                                 poll.options)
              s3 == buildLocalResults([s2 EXCEPT !.vbPoll = poll], poll)
          IN End(s3)
     ELSE castExchangeVoteByLabel(s0, poll, labelForUI, "castVote", rnd)

\* ------------------------------------------------------------------
\* Actions.  A step is taken only while the makeId() counters are in bounds.
\* ------------------------------------------------------------------
Do(s) == s.nextTok <= MaxLocalTok + 1 /\ Set(s)

\* "Create identity" (shown while no identity is stored): the challenge
\* request goes out
CreateIdentityClick ==
  /\ pc = "idle"
  /\ getExchangeHmacCredsOrNull(S).null
  /\ Do(Send(StartOp(S, "createIdentity", Nil), "challenge",
             "GET /identity/challenge", Nil, "", Nil, 0))

\* the challenge arrives (or not); the proof of work is solved and the
\* creation request goes out
ChallengeResp ==
  /\ pc = "challenge"
  /\ \E ok \in BOOLEAN :
       IF ok
       THEN Do(Send(Recv(S, 200, Nil), "identity", "POST /identity/create",
                    Nil, "", Nil, 0))
       ELSE Do(End(Recv(S, 500, Nil)))

\* self_id and signing_key are stored from a complete 2xx response
IdentityResp ==
  /\ pc = "identity"
  /\ \E ok \in BOOLEAN :
       IF ok
       THEN Do(End([Recv(S, 200, Nil) EXCEPT
                      !.identity = [self_id |-> SelfId(1), signing_key |-> SigningKey(1)]]))
       ELSE Do(End(Recv(S, 500, Nil)))

\* "Create": a draft is added, the list refreshed and the draft opened
CreatePollClick ==
  /\ pc = "idle"
  /\ nextLocal <= MaxDrafts
  /\ LET localPoll == Poll(LocalId(nextLocal), TRUE,
                           [i \in DOMAIN Labels |-> Opt(0, Labels[i])], Nil, 0)
         s0 == StartOp(S, "createPoll", localPoll.id)
     IN Do(refreshPolls(addLocalPoll([s0 EXCEPT !.nextLocal = @ + 1], localPoll),
                        localPoll))

\* "Refresh"
RefreshClick ==
  /\ pc = "idle"
  /\ Do(refreshPolls(StartOp(S, "refreshPolls", Nil), NoPoll))

\* a poll of the list is clicked
OpenPollClick ==
  /\ pc = "idle"
  /\ \E i \in DOMAIN pollList :
       Do(openPoll(StartOp(S, "openPoll", pollList[i].id), pollList[i]))

\* the page is loaded again with #poll=<id> in the URL: the runtime state
\* is new, the store is kept; boot refreshes the list and opens the poll
\* of the hash as a local one if the store has it, as a remote one if not
Reload ==
  /\ pc = "idle"
  /\ \E id \in {LocalId(n) : n \in 1..(nextLocal - 1)}
               \cup {remotePolls[i].id : i \in DOMAIN remotePolls} :
       LET s0 == [StartOp(S, "boot", id) EXCEPT
                    !.vbPoll = NoPoll, !.assertPoll = NoPoll,
                    !.currentPollId = Nil, !.assertOut = "",
                    !.pollList = <<>>]
           local == getLocalPoll(s0, id)
       IN Do(refreshPolls(s0,
               IF local # NoPoll THEN [local EXCEPT !.is_local = TRUE]
               ELSE Poll(id, FALSE, <<>>, Nil, 0)))

\* a vote button is clicked
CastVoteClick ==
  /\ pc = "idle"
  /\ \E i \in DOMAIN vbPoll.options, rnd \in RandomDraws :
       Do(castVote(StartOp(S, "castVote", vbPoll.id), vbPoll,
                   vbPoll.options[i].label, rnd))

\* the assert button (shown for a local poll) is clicked
AssertClick ==
  /\ pc = "idle"
  /\ assertPoll # NoPoll
  /\ assertPoll.is_local \/ startsWithLocal(assertPoll.id)
  /\ Do(assertPollToExchange(StartOp(S, "assert", assertPoll.id), assertPoll))

RefreshResp ==
  /\ pc = "refresh"
  /\ \E kind \in IndexKinds : Do(refreshPollsListed(S, kind))

HydrateResp ==
  /\ pc = "hydrate"
  /\ \E kind \in IndexKinds : Do(openPollHydrated(S, kind))

AssertMintResp ==
  /\ pc = "amint"
  /\ \E resp \in MintResponses(S) : Do(assertMinted(S, resp))

AssertListResp ==
  /\ pc = "alist"
  /\ \E kind \in IndexKinds : Do(assertLookedUp(S, kind))

AssertList2Resp ==
  /\ pc = "alist2"
  /\ \E kind \in IndexKinds, rnd \in RandomDraws :
       Do(assertFetchedRemote(S, kind, rnd))

AssertPostResp ==
  /\ pc = "apost"
  /\ \E resp \in CreateResponses(S), rnd \in RandomDraws :
       Do(assertCreated(S, resp, rnd))

VoteMintResp ==
  /\ pc \in {"vmint1", "vmint2"}
  /\ \E resp \in MintResponses(S), rnd \in RandomDraws :
       Do(getOrFetchMinted(S, IF pc = "vmint1" THEN 1 ELSE 2, resp, rnd))

VoteResp ==
  /\ pc = "vote1"
  /\ \E resp \in VoteResponses(S), rnd \in RandomDraws :
       Do(castExchangeVoteAnswered(S, resp, rnd))

VoteRetryResp ==
  /\ pc = "vote2"
  /\ \E resp \in VoteResponses(S) : Do(castExchangeVoteRetried(S, resp))

Next ==
  \/ CreateIdentityClick
  \/ ChallengeResp
  \/ IdentityResp
  \/ CreatePollClick
  \/ RefreshClick
  \/ OpenPollClick
  \/ Reload
  \/ CastVoteClick
  \/ AssertClick
  \/ RefreshResp
  \/ HydrateResp
  \/ AssertMintResp
  \/ AssertListResp
  \/ AssertList2Resp
  \/ AssertPostResp
  \/ VoteMintResp
  \/ VoteResp
  \/ VoteRetryResp

Spec == Init /\ [][Next]_vars

\* ------------------------------------------------------------------
\* The local vote store on its own: setLocalVote and buildLocalResults
\* called on one draft by several device tokens, in any order
\* ------------------------------------------------------------------
\* the draft voted on, as createPoll stores it
VotePoll ==
  Poll(LocalId(1), TRUE, [i \in DOMAIN Labels |-> Opt(0, Labels[i])], Nil, 0)

\* the same draft as openFromHash hands it over: {id, is_local}, no options
BarePoll == Poll(LocalId(1), TRUE, <<>>, Nil, 0)

\* the last call made on the vote store
Call(fn, pollId, token, choice) == Ev("call", fn, pollId, choice, token, 0, 0)

\* setLocalVote(poll.id, token, choice, poll.options) as castVote calls it
RecordVote ==
  \E n \in 1..MaxVoters, i \in DOMAIN VotePoll.options :
    LET token == LocalTok(n)
        choice == VotePoll.options[i].label
    IN Set([setLocalVote(S, VotePoll.id, token, choice, VotePoll.options)
              EXCEPT !.log = <<Call("setLocalVote", VotePoll.id, token,
                                    choice)>>])

\* buildLocalResults(poll) as openPoll and castVote call it
BuildResults ==
  \E poll \in {VotePoll, BarePoll} :
    Set([buildLocalResults(S, poll)
           EXCEPT !.log = <<Call("buildLocalResults", poll.id, Nil, "")>>])

NextVotes ==
  \/ RecordVote
  \/ BuildResults

SpecVotes == Init /\ [][NextVotes]_vars

\* ------------------------------------------------------------------
\* The stamp pool on its own: fetchStampsFromExchange, pickOneStampOrNull,
\* getOrFetchOneStampOrNull and clearExchangeStampPool called in any
\* order, against an Exchange that may issue any stamps, also stamps it
\* has issued before, the same stamp twice, or entries that are no stamps
\* ------------------------------------------------------------------
\* an issued entry that is not a string starting with "s_"
NotAStamp == <<"x", 0>>

\* the lists POST /stamp may answer with in `issued`
RECURSIVE IssuedLists(_)
IssuedLists(len) ==
  IF len = 0 THEN {<<>>}
  ELSE IssuedLists(len - 1) \cup
       {<<e>> \o l : e \in {Stamp(n) : n \in 1..PoolStamps} \cup {NotAStamp},
                    l \in {x \in IssuedLists(len - 1) : Len(x) = len - 1}}

\* what comes back from POST /stamp: nothing usable (the fetch or r.json()
\* throws), or a body with an `issued` list
PoolMintResponses ==
  {[throws |-> TRUE, issued |-> <<>>]}
  \cup {[throws |-> FALSE, issued |-> l] : l \in IssuedLists(MaxIssued)}

\* a call on the pool starts: its trace starts
PoolCall(s, fn) == [s EXCEPT !.t = T0, !.log = <<Call(fn, Nil, Nil, "")>>]

\* the call returns a value
PoolReturn(s, value) ==
  [s EXCEPT !.pc = "idle", !.t.stamp = value,
            !.log = Append(@, Ev("return", "", Nil, "", value, 0, 0))]

\* the mint was answered: the body's issued list is noted, the Exchange
\* keeps no count of what it issued
PoolMinted(s, resp) ==
  [fetchStampsFromExchange(s, resp) EXCEPT
     !.nextStamp = s.nextStamp,
     !.log = Append(@, Ev("issued", "", Nil, "", resp.issued, 0, 0))]

\* an identity is created and stored
PoolIdentity ==
  /\ pc = "idle"
  /\ getExchangeHmacCredsOrNull(S).null
  /\ Set([PoolCall(S, "createIdentity") EXCEPT
             !.identity = [self_id |-> SelfId(1), signing_key |-> SigningKey(1)]])

\* fetchStampsFromExchange(): it throws without an identity, else the mint
\* request goes out
PoolMint ==
  /\ pc = "idle"
  /\ LET s0 == PoolCall(S, "fetchStampsFromExchange")
     IN IF getExchangeHmacCredsOrNull(s0).null
        THEN Set([s0 EXCEPT !.log = Append(@, Ev("throw", "", Nil, "", Nil, 0, 0))])
        ELSE Set(exchangeFetchAuthed(s0, "pmint", "POST", "/stamp", Nil, <<>>))

PoolMintResp ==
  /\ pc = "pmint"
  /\ \E resp \in PoolMintResponses :
       IF resp.throws
       THEN Set([PoolMinted(S, resp) EXCEPT
                   !.pc = "idle",
                   !.log = Append(@, Ev("throw", "", Nil, "", Nil, 0, 0))])
       ELSE Set(PoolReturn(PoolMinted(S, resp), Nil))

\* pickOneStampOrNull()
PoolPickOne ==
  /\ pc = "idle"
  /\ \E rnd \in PoolDraws :
       Set(PoolReturn(PoolCall(S, "pickOneStampOrNull"),
                      pickOneStampOrNull(getExchangeStampPool(S), rnd)))

\* getOrFetchOneStampOrNull() up to its return or its mint request
PoolGetOrMint ==
  /\ pc = "idle"
  /\ \E rnd \in PoolDraws :
       LET s0 == PoolCall(S, "getOrFetchOneStampOrNull")
           branch == getOrFetchBranch(s0)
       IN IF branch = "pick"
          THEN Set(PoolReturn(s0, pickOneStampOrNull(getExchangeStampPool(s0),
                                                     rnd)))
          ELSE IF branch = "null" THEN Set(PoolReturn(s0, Nil))
          ELSE Set(exchangeFetchAuthed(s0, "gmint", "POST", "/stamp", Nil,
                                       <<>>))

\* the mint of getOrFetchOneStampOrNull() was answered
PoolGetOrMintResp ==
  /\ pc = "gmint"
  /\ \E resp \in PoolMintResponses, rnd \in PoolDraws :
       LET s1 == PoolMinted(S, resp)
       IN Set(PoolReturn(s1, getOrFetchResult(s1, resp, rnd)))

\* clearExchangeStampPool()
PoolClear ==
  /\ pc = "idle"
  /\ Set(clearExchangeStampPool(PoolCall(S, "clearExchangeStampPool")))

NextPool ==
  \/ PoolIdentity
  \/ PoolMint
  \/ PoolMintResp
  \/ PoolPickOne
  \/ PoolGetOrMint
  \/ PoolGetOrMintResp
  \/ PoolClear

SpecPool == Init /\ [][NextPool]_vars

\* ------------------------------------------------------------------
\* Request signing on its own: exchangeFetchAuthed called with any method,
\* path and body, at any time and with any nonce, under any stored key
\* ------------------------------------------------------------------
\* methods as a caller may write them
SignMethods == {"POST", "post", "GET"}

\* the endpoint paths of the signed requests
SignPaths == {"/stamp", "/polls"}

\* bodies: none, the empty object of a mint, the payload of a creation
SignBodies == {Nil, <<>>, <<"created_local_id", LocalId(1)>>}

\* values of String(Date.now())
SignTimes == {"1700000000000", "1700000000001"}

\* values of makeNonceHex(12)
SignNonces == {"0a", "0b"}

\* an identity is created and stored, with one of the keys the Exchange
\* may issue
SignIdentity ==
  /\ pc = "idle"
  /\ getExchangeHmacCredsOrNull(S).null
  /\ \E k \in 1..MaxKeys :
       Set([PoolCall(S, "createIdentity") EXCEPT
              !.identity = [self_id |-> SelfId(1), signing_key |-> SigningKey(k)]])

\* exchangeFetchAuthed(path, {method, body})
SignedFetch ==
  /\ pc = "idle"
  /\ \E method \in SignMethods, path \in SignPaths, body \in SignBodies,
        ts \in SignTimes, nonce \in SignNonces :
       Set(exchangeFetchAuthedAt(PoolCall(S, "exchangeFetchAuthed"), "signed",
                                 method, path, Nil, body, ts, nonce))

\* the response arrives
SignedFetchResp ==
  /\ pc = "signed"
  /\ \E status \in {200, 401} :
       Set([Recv(S, status, Nil) EXCEPT !.pc = "idle"])

\* the Exchange verifies a signature: it rebuilds the base from the request
\* it received and compares the HMAC under the key of the sender
Verifies(key, method, path, ts, nonce, bodyText, signature) ==
  signature = hmacSha256Hex(key, SigningBase(method, path, ts, nonce,
                                             sha256Hex(bodyText)))

NextSign ==
  \/ SignIdentity
  \/ SignedFetch
  \/ SignedFetchResp

SpecSign == Init /\ [][NextSign]_vars

\* ------------------------------------------------------------------
\* The proof of work of identity creation on its own: solvePowLite is
\* called with a challenge and a difficulty and tries 0, 1, 2, ...
\* ------------------------------------------------------------------

\* a hash is a string of hex digits; two digits stand for the sixteen
HexDigits == {"0", "f"}
Hashes == [1..HashLen -> HexDigits]

\* the hashes of "challenge:0", "challenge:1", ... of one challenge
Challenges == [1..(MaxPowNonce + 1) -> Hashes]

\* the difficulty of the challenge response: a number, or a value
\* Number() turns into NaN
Difficulties ==
  {[num |-> TRUE, n |-> d] : d \in (-1)..MaxDifficulty} \cup {[num |-> FALSE, n |-> 0]}

\* Math.max(0, Number(difficulty) || 0)
PrefixLen(difficulty) ==
  IF difficulty.num /\ difficulty.n > 0 THEN difficulty.n ELSE 0

\* "0".repeat(n)
RECURSIVE repeat(_, _)
repeat(str, n) == IF n <= 0 THEN <<>> ELSE <<str>> \o repeat(str, n - 1)

startsWithStrict(h, prefix) ==
  /\ Len(prefix) < Len(h)
  /\ SubSeq(h, 1, Len(prefix) + 1) = prefix \o <<"0">>

\* h.startsWith(prefix)
startsWith(h, prefix) ==
  /\ Len(prefix) <= Len(h)
  /\ SubSeq(h, 1, Len(prefix)) = prefix

\* String(nonce)
String(n) == ToString(n)

\* the search pauses every YieldEvery candidates
YieldEvery == 500

ShouldYieldNever(nonce) == FALSE

\* nonce % 500 === 0
ShouldYield(nonce) == nonce % YieldEvery = 0

\* sha256Hex(`${challenge}:${candidate}`); beyond the hashes the model
\* draws, a digest without a leading zero
HashOf(pw, n) ==
  IF n + 1 \in DOMAIN pw.hash THEN pw.hash[n + 1] ELSE [j \in 1..HashLen |-> "f"]

\* solvePowLite(challenge, difficulty) with the search at its start
PowStart(s, challenge, difficulty) ==
  [PoolCall(s, "solvePowLite") EXCEPT
     !.pc = "pow",
     !.pow = [@ EXCEPT !.running = TRUE, !.hash = challenge,
                       !.difficulty = difficulty, !.nonce = 0,
                       !.result = "", !.since = 0]]

\* one turn of the loop, up to its next await: the candidate is returned if
\* its hash starts with the target prefix; else the counter moves on and,
\* every YieldEvery candidates, the search waits for a setTimeout(0)
PowTurn(s) ==
  LET targetPrefix == repeat("0", PrefixLen(s.pow.difficulty))
      candidate == String(s.pow.nonce)
      h == HashOf(s.pow, s.pow.nonce)
      nonce == s.pow.nonce + 1
  IN IF startsWith(h, targetPrefix)
     THEN [s EXCEPT !.pc = "idle",
                    !.pow = [@ EXCEPT !.running = FALSE, !.result = candidate],
                    !.log = Append(@, Ev("return", "solvePowLite", Nil,
                                         candidate, Nil, 0, 0))]
     ELSE IF ShouldYield(nonce)
     THEN [s EXCEPT !.pc = "powYield",
                    !.pow = [@ EXCEPT !.nonce = nonce, !.since = 0,
                                      !.queue = Append(@, "timer")]]
     ELSE [s EXCEPT !.pow = [@ EXCEPT !.nonce = nonce, !.since = @ + 1]]

\* solvePowLite(challenge, difficulty) is called (once in a behaviour: it
\* keeps nothing from one call to the next)
PowSolve ==
  /\ pc = "idle"
  /\ pow = NoPow
  /\ \E challenge \in Challenges, difficulty \in Difficulties :
       Set(PowStart(S, challenge, difficulty))

\* a turn of the loop, for the candidates the model draws hashes for
PowTry ==
  /\ pc = "pow"
  /\ pow.nonce <= MaxPowNonce
  /\ Set(PowTurn(S))

NextPow ==
  \/ PowSolve
  \/ PowTry

SpecPow == Init /\ [][NextPow]_vars

\* ------------------------------------------------------------------
\* The proof of work and the host's event loop: a search that may never
\* end, user events that arrive while it runs
\* ------------------------------------------------------------------

\* solvePowLite is called with a challenge none of whose candidates has a
\* digest with a leading zero: the search ends only at difficulty 0
PowSolveHard ==
  /\ pc = "idle"
  /\ ~pow.running /\ pow.nonce = 0 /\ pow.result = ""
  /\ \E d \in 0..MaxDifficulty :
       Set(PowStart(S, <<>>, [num |-> TRUE, n |-> d]))

\* a turn of the loop: the continuation of the awaited digest runs without
\* the event loop taking a task in between
PowSearch ==
  /\ pc = "pow"
  /\ Set(PowTurn(S))

\* the user does something: the event is queued as a task (one at a time)
UiEvent ==
  /\ "ui" \notin Range(pow.queue)
  /\ Set([S EXCEPT !.pow.queue = Append(@, "ui")])

\* the event loop takes the next task when no script runs: a user event is
\* handled; the timer of a pause resumes the search (which the model cuts
\* off when the next stretch would pass MaxSearch)
RunTask ==
  /\ pc \in {"idle", "powYield"}
  /\ pow.queue # <<>>
  /\ LET s1 == [S EXCEPT !.pow.queue = Tail(@)]
     IN IF Head(pow.queue) = "ui"
        THEN Set([s1 EXCEPT !.pow.served = @ \/ pow.running])
        ELSE IF pow.nonce + YieldEvery <= MaxSearch
        THEN Set([s1 EXCEPT !.pc = "pow"])
        ELSE Set([s1 EXCEPT !.pc = "idle", !.pow.running = FALSE])

NextYield ==
  \/ PowSolveHard
  \/ PowSearch
  \/ UiEvent
  \/ RunTask

\* the script that runs goes on, and the event loop serves its queue
SpecYield ==
  Init /\ [][NextYield]_vars /\ WF_vars(PowSearch) /\ WF_vars(RunTask)

\* ------------------------------------------------------------------
\* Identity creation on its own: the identity panel of the pages open on
\* one local storage, and the two identity endpoints of the Exchange
\* ------------------------------------------------------------------

\* statuses the identity endpoints answer with
IdentityStatuses == {200, 429, 500}

\* r.ok
Ok(status) == status >= 200 /\ status <= 299

\* bodies of a create response: the identity the Exchange issues, the same
\* without one of its fields, and a text that is not JSON
CreatePayloads(n) ==
  {[null |-> FALSE, self_id |-> SelfId(n), signing_key |-> SigningKey(n)],
   [null |-> FALSE, self_id |-> "", signing_key |-> SigningKey(n)],
   [null |-> FALSE, self_id |-> SelfId(n), signing_key |-> ""],
   NoData}

\* refreshIdentityUi(): the Create button is shown iff no identity is stored
refreshIdentityUi(s, p) ==
  LET has == ~getExchangeHmacCredsOrNull(s).null
  IN [s EXCEPT !.pages.page[p].createShown = ~has,
               !.pages.page[p].identityStatus =
                  IF has THEN <<"Identity loaded (details hidden).">>
                  ELSE <<"No identity on this device.">>]

\* catch and finally of createIdentityBtn.onclick: the message of the error
\* is shown and the button enabled again
CreateFailed(s, p, message) ==
  [s EXCEPT !.pages.page[p].identityStatus = message,
            !.pages.page[p].disabled = FALSE,
            !.pages.page[p].pc = "idle"]

PayloadCompleteSelfIdOnly(data) == ~data.null /\ data.self_id # ""

\* !(!data?.self_id || !data?.signing_key)
PayloadComplete(data) ==
  ~data.null /\ data.self_id # "" /\ data.signing_key # ""

\* the page is loaded (again): the script starts afresh and boot calls
\* refreshIdentityUi
PageBoot(p) ==
  Set(refreshIdentityUi([S EXCEPT !.pages.page[p] = Page0], p))

\* createIdentityBtn.onclick up to the challenge request; the button can be
\* clicked when it is displayed and enabled
PageCreateClick(p) ==
  /\ pages.page[p].pc = "idle"
  /\ pages.page[p].createShown
  /\ ~pages.page[p].disabled
  /\ Set([S EXCEPT !.pages.page[p].disabled = TRUE,
                   !.pages.page[p].identityStatus = <<"Requesting challenge...">>,
                   !.pages.page[p].pc = "challenge"])

\* the challenge response: a non-2xx status throws, else the proof of work
\* is solved (SpecPow) and the create request goes out
PageChallengeResp(p) ==
  /\ pages.page[p].pc = "challenge"
  /\ \E status \in IdentityStatuses :
       LET s1 == [S EXCEPT !.pages.page[p].r = [status |-> status, data |-> NoData]]
       IN IF ~Ok(status)
          THEN Set(CreateFailed(s1, p, <<"Challenge failed (", ToString(status), "). ">>))
          ELSE Set([s1 EXCEPT !.pages.page[p].identityStatus = <<"Creating identity...">>,
                              !.pages.page[p].pc = "create"])

\* the create response: self_id and signing_key are stored from a complete
\* 2xx response, whatever the store holds
PageCreateResp(p) ==
  /\ pages.page[p].pc = "create"
  /\ pages.issued < MaxKeys
  /\ \E status \in IdentityStatuses, data \in CreatePayloads(pages.issued + 1) :
       LET s1 == [S EXCEPT !.pages.page[p].r = [status |-> status, data |-> data],
                           !.pages.issued = IF Ok(status) THEN @ + 1 ELSE @]
       IN IF ~Ok(status)
          THEN Set(CreateFailed(s1, p, <<"Identity create failed (", ToString(status), "). ">>))
          ELSE IF ~PayloadComplete(data)
          THEN Set(CreateFailed(s1, p,
                 <<"Identity create returned unexpected payload (missing self_id/signing_key).">>))
          ELSE Set([refreshIdentityUi(
                      [s1 EXCEPT !.identity = [self_id |-> data.self_id,
                                               signing_key |-> data.signing_key]], p)
                    EXCEPT !.pages.page[p].disabled = FALSE,
                           !.pages.page[p].pc = "idle"])

NextIdentity ==
  \E p \in 1..MaxPages :
    \/ PageBoot(p)
    \/ PageCreateClick(p)
    \/ PageChallengeResp(p)
    \/ PageCreateResp(p)

SpecIdentity == Init /\ [][NextIdentity]_vars

\* ------------------------------------------------------------------
\* normalizeResults on its own, applied to result payloads of every shape
\* ------------------------------------------------------------------

\* a JavaScript value at a field of a payload: undefined, null, a number,
\* or an object, given by its entries <<key, value>>
Value(type, entries) == [type |-> type, entries |-> entries]
Undefined == Value("undefined", {})
Object(entries) == Value("object", entries)

\* keys of a tally: the option ids of the poll, as the keys of an object
OptionKeys == {"11", "12"}

\* the tallies: the empty map, and a weight for each option
Tallies ==
  {{}} \cup {{<<k, f[k]>> : k \in OptionKeys} : f \in [OptionKeys -> 0..MaxWeight]}

\* a number at a field, or the lack of one; null in the canonical result
Number(n) == [type |-> "number", n |-> n]
NoNumber == [type |-> "undefined", n |-> 0]
Null == [type |-> "null", n |-> 0]

\* the numeric fields of a payload, at its top level or under results;
\* weights_used_sum is weights_used.sum of an object weights_used
NumFields == {"people_voted", "total_votes", "represented_people", "weights_used_sum"}
NoNumbers == [f \in NumFields |-> NoNumber]

\* a payload: undefined, null, a number, or an object with the fields
\* results (an object with totals, counts and numeric fields, or another
\* value), totals, counts and numeric fields
Payload(type, results, totals, counts) ==
  [type |-> type, results |-> results, totals |-> totals, counts |-> counts,
   nums |-> NoNumbers]
Results(type, totals, counts) ==
  [type |-> type, totals |-> totals, counts |-> counts, nums |-> NoNumbers]
NoResults == Results("undefined", Undefined, Undefined)

\* the documented shapes of a tally
BareTotals(tally) == Payload("object", NoResults, Object(tally), Undefined)
BareCounts(tally) == Payload("object", NoResults, Undefined, Object(tally))
NestedTotals(tally) ==
  Payload("object", Results("object", Object(tally), Undefined), Undefined, Undefined)
NestedCounts(tally) ==
  Payload("object", Results("object", Undefined, Object(tally)), Undefined, Undefined)

\* numeric fields as payloads carry them: each absent, 0 or 1
NumberChoices == [NumFields -> {NoNumber, Number(0), Number(1)}]

\* payloads without totals whose numeric fields are at the top level or
\* under results
NumberPayloads ==
  {[Payload("object", NoResults, Undefined, Undefined) EXCEPT !.nums = nums] :
     nums \in NumberChoices}
  \cup {[Payload("object", NoResults, Undefined, Undefined)
           EXCEPT !.results = [Results("object", Undefined, Undefined)
                                 EXCEPT !.nums = nums]] :
          nums \in NumberChoices}

Payloads ==
  {Payload(ty, NoResults, Undefined, Undefined) : ty \in {"undefined", "null", "number"}}
  \cup {BareTotals(tally) : tally \in Tallies}
  \cup {BareCounts(tally) : tally \in Tallies}
  \cup {NestedTotals(tally) : tally \in Tallies}
  \cup {NestedCounts(tally) : tally \in Tallies}
  \cup {Payload("object", NoResults, Object(a), Object(b)) : a, b \in Tallies}
  \cup {Payload("object", Results("number", Undefined, Undefined),
                Value(ty, {}), Object(b)) :
          ty \in {"null", "number"}, b \in Tallies}
  \cup NumberPayloads

\* v && typeof v === "object"
IsObject(v) == v.type = "object"

PickTotalsOnly(r, raw) ==
  IF IsObject(r.totals) THEN r.totals.entries
  ELSE IF IsObject(raw.totals) THEN raw.totals.entries
  ELSE {}

\* totals: r.totals, else r.counts, else raw.totals, else raw.counts, else {}
PickTotals(r, raw) ==
  IF IsObject(r.totals) THEN r.totals.entries
  ELSE IF IsObject(r.counts) THEN r.counts.entries
  ELSE IF IsObject(raw.totals) THEN raw.totals.entries
  ELSE IF IsObject(raw.counts) THEN raw.counts.entries
  ELSE {}

\* obj || {}: a payload that is undefined or null counts as {}
OrEmpty(obj) ==
  IF obj.type \in {"undefined", "null"}
  THEN Payload("object", NoResults, Undefined, Undefined)
  ELSE obj

\* reading a property of undefined or of null throws
ReadThrows(v) == v.type \in {"undefined", "null"}

PickNumberOrZero(r, raw, f) ==
  IF r.nums[f].type = "number" THEN r.nums[f]
  ELSE IF raw.nums[f].type = "number" THEN raw.nums[f]
  ELSE Number(0)

\* (typeof r.f === "number") ? r.f : (typeof raw.f === "number") ? raw.f : null
\* (a payload of the model has weights_used only with a numeric sum)
PickNumber(r, raw, f) ==
  IF r.nums[f].type = "number" THEN r.nums[f]
  ELSE IF raw.nums[f].type = "number" THEN raw.nums[f]
  ELSE Null

\* Object.values(totals).reduce((a, b) => a + (Number(b) || 0), 0)
RECURSIVE SumValues(_)
SumValues(entries) ==
  IF entries = {} THEN 0
  ELSE LET e == CHOOSE x \in entries : TRUE
       IN e[2] + SumValues(entries \ {e})

\* represented weight: weights_used.sum, else represented_people (of r, then
\* of raw), else the sum of the totals
RepresentedWeight(r, raw, totals) ==
  IF PickNumber(r, raw, "weights_used_sum").type = "number"
  THEN PickNumber(r, raw, "weights_used_sum")
  ELSE IF PickNumber(r, raw, "represented_people").type = "number"
  THEN PickNumber(r, raw, "represented_people")
  ELSE Number(SumValues(totals))

\* normalizeResults(obj): the canonical shape (throws: a property of
\* undefined or null was read)
normalizeResults(obj) ==
  LET raw == OrEmpty(obj)
      r == IF raw.type = "object" /\ raw.results.type = "object"
           THEN raw.results
           ELSE [type |-> raw.type, totals |-> raw.totals,
                 counts |-> raw.counts, nums |-> raw.nums]
      totals == PickTotals(r, raw)
  IN [throws |-> ReadThrows(raw) \/ ReadThrows(r),
      totals |-> totals,
      people_voted |-> PickNumber(r, raw, "people_voted"),
      total_votes |-> PickNumber(r, raw, "total_votes"),
      represented_weight |-> RepresentedWeight(r, raw, totals)]

\* normalizeResults(obj) is called and returns
Normalize ==
  /\ pc = "idle"
  /\ \E obj \in Payloads :
       Set([S EXCEPT !.t = T0,
                     !.log = <<Ev("call", "normalizeResults", Nil, "", obj, 0, 0),
                               Ev("return", "normalizeResults", Nil, "",
                                  normalizeResults(obj), 0, 0)>>])

NextNorm == Normalize

SpecNorm == Init /\ [][NextNorm]_vars

\* ------------------------------------------------------------------
\* The merge lookup of assert on its own, applied to indexes whose polls
\* carry every creation timestamp of the model
\* ------------------------------------------------------------------

\* the indexes: polls asserted from draft 1 or from draft 2, with a
\* created_at of 0..MaxTime (0: the field is missing)
MergeIndexes ==
  UNION {[1..n -> {Poll(Nil, FALSE, <<>>, LocalId(k), at) :
                     k \in 1..2, at \in 0..MaxTime}] : n \in 1..MaxMatches}

\* the Exchange numbers its polls in index order
Numbered(polls) == [i \in DOMAIN polls |-> [polls[i] EXCEPT !.id = RemoteId(i)]]

\* the lookup of assert for draft 1 on an index: the target, NoPoll when
\* nothing matches
MergeTarget(polls, localKey) ==
  LET matches == Matches(polls, localKey)
  IN IF matches = {} THEN NoPoll ELSE NewestMatch(polls, matches)

\* (one lookup in a behaviour: the lookup keeps nothing between calls)
MergeLookup ==
  /\ pc = "idle"
  /\ log = <<>>
  /\ \E index \in MergeIndexes :
       LET polls == Numbered(index)
       IN Set([S EXCEPT !.t = [T0 EXCEPT !.localKey = LocalId(1),
                                         !.target = MergeTarget(polls, LocalId(1))],
                        !.log = <<Ev("call", "mergeLookup", LocalId(1), "", polls, 0, 0)>>])

NextMerge == MergeLookup

SpecMerge == Init /\ [][NextMerge]_vars

\* ------------------------------------------------------------------
\* Voting on polls the Exchange already holds: polls created elsewhere are
\* listed, opened and voted on, with or without an identity
\* ------------------------------------------------------------------

\* somebody else's poll is created at the Exchange
ForeignPoll ==
  /\ pc = "idle"
  /\ Len(remotePolls) < MaxRemote
  /\ \E b \in OptionIdBases :
       LET n == Len(remotePolls) + 1
       IN Set([S EXCEPT !.remotePolls =
                 Append(@, Poll(RemoteId(n), FALSE,
                                [i \in DOMAIN Labels |-> Opt(b + i, Labels[i])],
                                Nil, n))])

NextRemote ==
  \/ ForeignPoll
  \/ CreateIdentityClick
  \/ ChallengeResp
  \/ IdentityResp
  \/ RefreshClick
  \/ RefreshResp
  \/ OpenPollClick
  \/ HydrateResp
  \/ CastVoteClick
  \/ VoteMintResp
  \/ VoteResp
  \/ VoteRetryResp

SpecRemote == Init /\ [][NextRemote]_vars

\* ------------------------------------------------------------------
\* The live-results stream on its own: openPoll invocations that may
\* overlap (a click on the list, the hash of the URL, the re-open of
\* castVote and of assert), the close button, "Back to list", and the
\* error events of the streams
\* ------------------------------------------------------------------
\* the ids openPoll is called with
StreamPolls == {RemoteId(1), RemoteId(2), LocalId(1)}

\* how an EventSource fails: "fatal" (an HTTP error status: the browser
\* closes it and does not reconnect) or "retry" (the connection is lost: the
\* browser reconnects unless close() is called)
ErrorKinds == {"fatal", "retry"}

\* es.close() on the EventSource es refers to (a TypeError on null, caught)
CloseEs(s) ==
  IF s.live.es = 0 THEN s
  ELSE [s EXCEPT !.live.sources[s.live.es].open = FALSE]

closeStream(s) == [CloseEs(s) EXCEPT !.live.es = 0]

\* openPoll up to its first await: the stream of the poll shown before is
\* closed; a remote poll suspends at the hydration fetch
openPollShown(s, pollId) ==
  LET s0 == closeStream([s EXCEPT !.currentPollId = pollId,
                                  !.live.opened = pollId])
  IN IF startsWithLocal(pollId) THEN s0
     ELSE [s0 EXCEPT !.live.calls = Append(@, pollId)]

\* openPoll after the hydration settled (with any outcome):
\* es = new EventSource(.../polls/${pollId}/stream)
openPollStream(s, i) ==
  LET calls == s.live.calls
  IN [s EXCEPT
        !.live.sources = Append(@, [poll |-> calls[i], open |-> TRUE]),
        !.live.es = Len(s.live.sources) + 1,
        !.live.calls = SubSeq(calls, 1, i - 1) \o SubSeq(calls, i + 1, Len(calls))]

\* EventSource number i reports an error: the browser has closed it if the
\* error is fatal; es.onerror closes what es refers to at that moment
onerror(s, i, kind) ==
  LET s0 == [s EXCEPT !.live.erred = i,
                      !.live.sources[i].open = (kind = "retry")]
  IN CloseEs(s0)

StreamOpenPoll ==
  /\ Len(live.calls) < MaxCalls
  /\ \E pollId \in StreamPolls : Set(openPollShown(S, pollId))

StreamHydrated ==
  /\ Len(live.sources) < MaxSources
  /\ \E i \in DOMAIN live.calls : Set(openPollStream(S, i))

StreamError ==
  \E i \in DOMAIN live.sources, kind \in ErrorKinds :
    /\ live.sources[i].open
    /\ Set(onerror(S, i, kind))

\* "Close" of the poll view
CloseView ==
  /\ live.opened # Nil
  /\ Set(closeStream(S))

\* "Back to list"
BackToList ==
  /\ currentPollId # Nil
  /\ Set([S EXCEPT !.currentPollId = Nil])

NextStream ==
  \/ StreamOpenPoll
  \/ StreamHydrated
  \/ StreamError
  \/ CloseView
  \/ BackToList

SpecStream == Init /\ [][NextStream]_vars


\* ------------------------------------------------------------------
\* Two handler invocations at a time: a click while a handler is suspended
\* at a network call starts a second invocation; either one resumes when
\* its response arrives.  The second click is on the assert button or on a
\* vote button of a draft.  The Exchange answers every request, and refuses
\* one only where it has to (a stamp already spent, no stamp or no poll
\* left to issue).
\* ------------------------------------------------------------------
\* the responses that grant the request, or all of them when none does
Granted(all, ok) == IF ok # {} THEN ok ELSE all

GrantedMint(s) ==
  Granted(MintResponses(s),
          {r \in MintResponses(s) : ~r.throws /\ r.issued # <<>>})

GrantedCreate(s) ==
  Granted(CreateResponses(s),
          {r \in CreateResponses(s) : r.status = 200 /\ r.hasId})

GrantedVote(s) ==
  Granted(VoteResponses(s), {r \in VoteResponses(s) : r.status = 200})

\* the state with the other invocation in front
Swap(s) ==
  [s EXCEPT !.pc = s.parked.pc, !.t = s.parked.t, !.log = s.parked.log,
            !.parked = [pc |-> s.pc, t |-> s.t, log |-> s.log]]

\* the state as each of the two invocations finds it
Turns == {S, Swap(S)}

\* an invocation in flight is kept in front of a slot that is free
Front(s) == IF s.pc = "idle" /\ s.parked.pc # "idle" THEN Swap(s) ELSE s

DoTurn(s) == Do(Front(s))

\* the assert button is clicked, whether or not a handler is in flight
OverlapAssertClick ==
  \E s \in Turns :
    /\ s.pc = "idle"
    /\ s.assertPoll # NoPoll
    /\ s.assertPoll.is_local \/ startsWithLocal(s.assertPoll.id)
    /\ DoTurn(assertPollToExchange(StartOp(s, "assert", s.assertPoll.id),
                                   s.assertPoll))

\* a vote button of a draft is clicked, whether or not a handler is in
\* flight
OverlapVoteClick ==
  \E s \in Turns :
    /\ s.pc = "idle"
    /\ s.vbPoll.is_local \/ startsWithLocal(s.vbPoll.id)
    /\ \E i \in DOMAIN s.vbPoll.options, rnd \in RandomDraws :
         DoTurn(castVote(StartOp(s, "castVote", s.vbPoll.id), s.vbPoll,
                         s.vbPoll.options[i].label, rnd))

OverlapRefreshResp ==
  \E s \in Turns :
    /\ s.pc = "refresh"
    /\ \E kind \in {"polls"} : DoTurn(refreshPollsListed(s, kind))

OverlapHydrateResp ==
  \E s \in Turns :
    /\ s.pc = "hydrate"
    /\ \E kind \in {"polls"} : DoTurn(openPollHydrated(s, kind))

OverlapMintResp ==
  \E s \in Turns :
    /\ s.pc = "amint"
    /\ \E resp \in GrantedMint(s) : DoTurn(assertMinted(s, resp))

OverlapListResp ==
  \E s \in Turns :
    /\ s.pc = "alist"
    /\ \E kind \in {"polls"} : DoTurn(assertLookedUp(s, kind))

OverlapList2Resp ==
  \E s \in Turns :
    /\ s.pc = "alist2"
    /\ \E kind \in {"polls"}, rnd \in RandomDraws :
         DoTurn(assertFetchedRemote(s, kind, rnd))

OverlapPostResp ==
  \E s \in Turns :
    /\ s.pc = "apost"
    /\ \E resp \in GrantedCreate(s), rnd \in RandomDraws :
         DoTurn(assertCreated(s, resp, rnd))

OverlapVoteMintResp ==
  \E s \in Turns :
    /\ s.pc \in {"vmint1", "vmint2"}
    /\ \E resp \in GrantedMint(s), rnd \in RandomDraws :
         DoTurn(getOrFetchMinted(s, IF s.pc = "vmint1" THEN 1 ELSE 2, resp, rnd))

OverlapVoteResp ==
  \E s \in Turns :
    /\ s.pc = "vote1"
    /\ \E resp \in GrantedVote(s), rnd \in RandomDraws :
         DoTurn(castExchangeVoteAnswered(s, resp, rnd))

OverlapVoteRetryResp ==
  \E s \in Turns :
    /\ s.pc = "vote2"
    /\ \E resp \in GrantedVote(s) : DoTurn(castExchangeVoteRetried(s, resp))

NextOverlap ==
  \/ CreateIdentityClick
  \/ ChallengeResp
  \/ IdentityResp
  \/ CreatePollClick
  \/ OverlapAssertClick
  \/ OverlapVoteClick
  \/ OverlapRefreshResp
  \/ OverlapHydrateResp
  \/ OverlapMintResp
  \/ OverlapListResp
  \/ OverlapList2Resp
  \/ OverlapPostResp
  \/ OverlapVoteMintResp
  \/ OverlapVoteResp
  \/ OverlapVoteRetryResp

SpecOverlap == Init /\ [][NextOverlap]_vars


\* ------------------------------------------------------------------
\* The client with an Exchange that may name a poll by the id its creator
\* sent: the index then lists a poll whose id has the local prefix
\* ------------------------------------------------------------------
\* the Exchange holds a poll named after draft n and tagged with it
EchoedPoll ==
  /\ Len(remotePolls) < MaxRemote
  /\ \E n \in 1..MaxDrafts, b \in OptionIdBases :
       /\ \A i \in DOMAIN remotePolls : remotePolls[i].id # LocalId(n)
       /\ remotePolls' =
            Append(remotePolls,
                   Poll(LocalId(n), FALSE,
                        [i \in DOMAIN Labels |-> Opt(b + i, Labels[i])],
                        LocalId(n), Len(remotePolls) + 1))
  /\ UNCHANGED <<identity, stampPool, tokens, localPolls, localVotes,
                 lastChoice, vbPoll, assertPoll, currentPollId, assertOut,
                 pollList, spent, nextStamp, nextLocal, nextTok, pc, t, log,
                 last, pow, pages, live, parked>>

NextLocalIds == Next \/ EchoedPoll

SpecLocalIds == Init /\ [][NextLocalIds]_vars

\* ------------------------------------------------------------------
\* Properties
\* ------------------------------------------------------------------
\* ids of the drafts in the local store
LocalIds == {localPolls[i].id : i \in DOMAIN localPolls}

\* ids of the drafts that were created and are no longer in the local store:
\* only the purge at the end of a successful assert removes a draft
PurgedIds == {LocalId(n) : n \in 1..(nextLocal - 1)} \ LocalIds

\* an assert is running
InAssert == log # <<>> /\ log[1].ep = "assert"

\* a castVote is running
InCastVote == log # <<>> /\ log[1].ep = "castVote"

\* the step belongs to an assert: it starts one, continues one or ends one
AssertStep ==
  \/ InAssert
  \/ /\ pc = "idle"
     /\ \/ log' # <<>> /\ log'[1].ep = "assert"
        \/ pc' = "idle" /\ last'.op = "assert"

\* positions in the trace of the vote requests, of the purge
VoteReqs == {i \in DOMAIN log : log[i].ev = "req" /\ log[i].ep = "POST /vote"}

PurgeAt == {i \in DOMAIN log : log[i].ev = "purge"}

\* the request in flight
InFlight == log[Len(log)]

\* the options the Exchange holds for a poll
RemoteOptions(id) ==
  IF \E i \in DOMAIN remotePolls : remotePolls[i].id = id
  THEN remotePolls[CHOOSE i \in DOMAIN remotePolls : remotePolls[i].id = id].options
  ELSE <<>>

\* an assert has returned with the remote poll live (created or matched),
\* a local vote to carry, and the vote carried / not carried
AssertFull ==
  /\ pc = "idle" /\ last.op = "assert"
  /\ last.target # Nil /\ last.choice /\ last.voted

AssertPartial ==
  /\ pc = "idle" /\ last.op = "assert"
  /\ last.target # Nil /\ last.choice /\ ~last.voted

\* C1 (stamp single-use): a stamp the Exchange accepted as the X-Stamp
\* credential of a vote is no longer in the persisted stamp pool, and no
\* later vote request carries it as X-Stamp.
C1_StampSingleUse ==
  /\ \A i \in DOMAIN stampPool : stampPool[i] \notin spent
  /\ (pc \in {"vote1", "vote2"} /\ InFlight.cred = "X-Stamp")
       => InFlight.val \notin spent

\* C2 (assert idempotence): once the assert of a draft has succeeded (the
\* draft was purged), a second assert carrying the same created_local_id
\* sends no POST /polls creation request, whatever its index lookup
\* returned, so the draft has one remote poll.
C2_AssertIdempotent ==
  ~(InAssert /\ pc = "apost" /\ t.localKey \in PurgedIds)

\* the remote target of the running assert is confirmed: it was matched in
\* the index (no creation request was sent), or the creation request
\* returned success with its poll id
TargetConfirmed ==
  /\ t.target # NoPoll
  /\ t.target \in Range(remotePolls)
  /\ t.target.created_local_id = t.localKey
  /\ \/ ~\E i \in DOMAIN log : log[i].ev = "req" /\ log[i].ep = "POST /polls"
     \/ \E i \in DOMAIN log :
          /\ log[i].ev = "resp" /\ log[i].ep = "POST /polls"
          /\ log[i].status = 200 /\ log[i].val = t.target.id
          /\ \A j \in PurgeAt : i < j

\* C3 (no lost drafts): a step of an assert changes the local poll list or
\* the local vote state only by the purge, and the purge happens only with
\* the remote target confirmed; every other step of an assert (missing
\* identity, creation rejected, network error, creation response without a
\* poll id included) leaves the draft and its vote state as they were.
C3_NoLostDrafts ==
  [][AssertStep =>
       IF \E i \in DOMAIN log' : log'[i].ev = "purge" /\ i > Len(log)
       THEN /\ TargetConfirmed'
            /\ localPolls' = SelectSeqBy(localPolls,
                               {p \in Range(localPolls) : p.id # t.poll.id})
            /\ localVotes' = Del(localVotes, t.poll.id)
       ELSE UNCHANGED <<localPolls, localVotes>>]_vars

\* an assert ended in a total failure with the draft and its recorded vote
\* still in the store
C3_Witness ==
  /\ pc = "idle" /\ last.op = "assert" /\ ~last.purged
  /\ assertOut \in {"Assert failed (network error).", "Assert failed (500).",
                    "Assert ok, but response missing poll id."}
  /\ last.poll \in LocalIds
  /\ Has(localVotes, last.poll)
  /\ localVotes[last.poll].byToken # EmptyMap
\* texts of #assertOut
MissingIdentityText ==
  "Missing identity: create/import an Exchange identity first."

TotalFailureTexts ==
  {MissingIdentityText, "Assert failed (network error).",
   "Assert failed (500).", "Assert ok, but response missing poll id."}

\* C4 (assert without identity): when self_id or signing_key is not stored,
\* an assert of a draft returns at once with the missing-identity status;
\* the draft and its vote state stay in the local store and no request (so
\* no POST /polls) is sent.
C4_AssertWithoutIdentity ==
  [][(pc = "idle" /\ AssertStep
      /\ (identity.self_id = "" \/ identity.signing_key = ""))
       => /\ pc' = "idle"
          /\ log' = <<>>
          /\ last'.op = "assert"
          /\ assertOut' = MissingIdentityText
          /\ UNCHANGED <<localPolls, localVotes, remotePolls>>]_vars

\* an assert of a draft of the store has returned for want of an identity
C4_Witness ==
  /\ pc = "idle" /\ last.op = "assert"
  /\ identity = NoIdentity
  /\ assertOut = MissingIdentityText
  /\ last.poll \in LocalIds

\* the order of a carried vote: every vote request of an assert goes to the
\* target, after the response that created or matched the target, with the
\* id the target gives the option labelled as the local choice, and before
\* the purge
CarryOrdered ==
  \A i \in VoteReqs :
    /\ t.target # NoPoll
    /\ log[i].poll = t.target.id
    /\ \E k \in 1..(i - 1) :
         /\ log[k].ev = "resp"
         /\ log[k].ep \in {"POST /polls", "GET /polls"}
         /\ log[k].status = 200
    /\ \E k \in DOMAIN RemoteOptions(log[i].poll) :
         /\ RemoteOptions(log[i].poll)[k].label = t.localChoice
         /\ RemoteOptions(log[i].poll)[k].id = log[i].opt
    /\ \A j \in PurgeAt : i < j

\* C5 (vote carry-forward ordering), as stated: in an assert of a draft
\* with a recorded local vote, the remote poll is created or matched, then
\* the vote request is posted to it with the id of the option of that label
\* and an X-Stamp header, and only then the draft is purged.
C5_CarryUsesStamp ==
  (InAssert /\ t.localChoice # "")
    => /\ CarryOrdered
       /\ \A i \in VoteReqs : log[i].cred = "X-Stamp"

\* C5, amended: the same order; the vote request carries an X-Stamp header,
\* or, when a voter token is already stored for the target poll, that token
\* as X-Voter-Token.
C5_CarryOrdering ==
  (InAssert /\ t.localChoice # "")
    => /\ CarryOrdered
       /\ \A i \in VoteReqs :
            \/ /\ log[i].cred = "X-Stamp"
               /\ i = Len(log) => ~Has(tokens, log[i].poll)
            \/ /\ log[i].cred = "X-Voter-Token"
               /\ Has(tokens, log[i].poll)
               /\ tokens[log[i].poll] = log[i].val

\* an assert has returned after the vote was carried and the draft purged
C5_Witness ==
  /\ AssertFull
  /\ last.purged
  /\ last.poll \notin LocalIds

\* C6 (purge is complete): the vote-state map and the token map have no
\* entry keyed by the local id of a draft whose assert has succeeded (a
\* draft no longer in the local poll list), in every state the UI reaches.
C6_PurgeComplete ==
  \A id \in PurgedIds : ~Has(localVotes, id) /\ ~Has(tokens, id)

\* C7 (partial assert never rolls back): once the target is created or
\* matched, an assert sends only index reads, mints and votes, and the
\* Exchange keeps the target as it was; when the carried vote has failed,
\* the assert has still purged the draft and opened the remote poll.
C7_NoRollback ==
  /\ (InAssert /\ t.target # NoPoll)
       => /\ t.target \in Range(remotePolls)
          /\ \A i \in DOMAIN log :
               (log[i].ev = "req" /\ \E k \in 1..(i - 1) :
                   log[k].ev = "resp" /\ log[k].ep = "POST /polls")
                 => log[i].ep \in {"GET /polls", "POST /stamp", "POST /vote"}
  /\ AssertPartial
       => /\ last.purged
          /\ last.poll \notin LocalIds
          /\ ~Has(localVotes, last.poll)
          /\ currentPollId = last.target
          /\ last.target \in {remotePolls[i].id : i \in DOMAIN remotePolls}

\* an assert has returned with the poll live and the vote not carried
C7_Witness ==
  /\ AssertPartial
  /\ currentPollId = last.target

\* C8 (partial assert is surfaced): when the poll is live and the vote was
\* not carried, the status shown once the assert has returned is none of
\* the total-failure texts and is not the status shown after an assert that
\* carried the vote (which is the empty text openPoll leaves).
C8_PartialSurfaced ==
  AssertPartial => (assertOut \notin TotalFailureTexts /\ assertOut # "")

\* the status shown after an assert that carried the vote is empty
FullSuccessStatusIsEmpty == AssertFull => assertOut = ""

\* C9 (exactly one automatic retry): a handler sends at most two vote
\* requests; a second one only after a first one that carried X-Stamp and
\* was answered 403, after the stamp pool was cleared and exactly one mint
\* request was sent, and it carries X-Stamp; so a rejected voter-token
\* vote, a rejection with another status and a rejected retry are not
\* retried.
C9_OneRetry ==
  /\ Cardinality(VoteReqs) <= 2
  /\ \A i, j \in VoteReqs :
       i < j =>
         /\ log[i].cred = "X-Stamp"
         /\ log[i + 1].ev = "resp" /\ log[i + 1].status = 403
         /\ log[j].cred = "X-Stamp"
         /\ \E k \in (i + 1)..(j - 1) :
              /\ log[k].ev = "clear"
              /\ \A m \in (i + 1)..(j - 1) :
                   log[m].ep = "POST /stamp" => k < m
         /\ Cardinality({m \in (i + 1)..(j - 1) :
                           log[m].ev = "req" /\ log[m].ep = "POST /stamp"}) = 1

\* a castVote on a remote poll has its retry in flight
C9_Witness ==
  /\ InCastVote
  /\ pc = "vote2"
  /\ Cardinality(VoteReqs) = 2

\* C10 (invalid token is cleared): when a handler has returned after the
\* Exchange rejected the stored voter token of a poll as invalid, no token
\* is stored for that poll any more.
C10_InvalidTokenCleared ==
  (pc = "idle" /\ last.rejected # Nil) => ~Has(tokens, last.rejected)
\* the step sends a vote request
SendsVote ==
  /\ log' # log
  /\ log' # <<>>
  /\ log'[Len(log')].ev = "req"
  /\ log'[Len(log')].ep = "POST /vote"

\* C11 (credential choice): every vote request carries one of X-Stamp and
\* X-Voter-Token; it carries X-Voter-Token (the stored token) exactly when
\* a voter token is stored for the poll when the vote is called; on that
\* path no stamp is picked, and until the handler has the answer and has
\* gone on, no mint request is made and the stamp pool stays as it was.
C11_CredentialChoice ==
  [][/\ SendsVote =>
          LET rq == log'[Len(log')]
          IN /\ rq.cred \in {"X-Stamp", "X-Voter-Token"}
             /\ rq.cred = "X-Voter-Token" <=> Has(tokens, rq.poll)
             /\ rq.cred = "X-Voter-Token"
                  => /\ rq.val = tokens[rq.poll]
                     /\ t'.stamp = Nil
                     /\ stampPool' = stampPool
                     /\ nextStamp' = nextStamp
             /\ rq.cred = "X-Stamp"
                  => rq.val \in Range(stampPool') /\ t'.stamp = rq.val
     /\ (pc = "vote1" /\ InFlight.cred = "X-Voter-Token")
          => /\ stampPool' = stampPool
             /\ spent' = spent
             /\ pc' \notin {"vmint1", "vmint2", "vote2"}
             /\ ~\E i \in DOMAIN log' :
                   /\ i > Len(log)
                   /\ log'[i].ev \in {"clear", "req"}
                   /\ log'[i].ep \in {"", "POST /stamp", "POST /vote"}]_vars

\* a castVote has its vote in flight with the stored voter token
C11_Witness ==
  /\ InCastVote
  /\ pc = "vote1"
  /\ InFlight.cred = "X-Voter-Token"
  /\ stampPool # <<>>
\* C12 (voter-token session): when an accepted vote on remote poll P is
\* answered with a voter_token, that token is stored under P; a token
\* stored for a remote poll stays stored; every later vote request for P
\* carries it and the Exchange spends no stamp for it; and the token sent
\* in a vote request for P is the one stored under P, which is stored
\* under no other poll.
C12_VoterTokenSession ==
  [][/\ \A i \in DOMAIN log' :
          (/\ log'[i].ev = "resp" /\ log'[i].ep = "POST /vote"
           /\ log'[i].status = 200 /\ log'[i].val # Nil)
            => /\ Has(tokens', log'[i].poll)
               /\ tokens'[log'[i].poll] = log'[i].val
     /\ \A id \in DOMAIN tokens :
          ~startsWithLocal(id)
            => Has(tokens', id) /\ tokens'[id] = tokens[id]
     /\ SendsVote =>
          LET rq == log'[Len(log')]
          IN /\ Has(tokens, rq.poll)
                  => rq.cred = "X-Voter-Token" /\ rq.val = tokens[rq.poll]
             /\ rq.cred = "X-Voter-Token"
                  => /\ Has(tokens, rq.poll)
                     /\ rq.val = tokens[rq.poll]
                     /\ \A id \in DOMAIN tokens :
                          id # rq.poll => tokens[id] # rq.val
     /\ (pc = "vote1" /\ InFlight.cred = "X-Voter-Token")
          => spent' = spent]_vars

\* a castVote went out with the stored voter token and was accepted
C12_Witness ==
  /\ InCastVote
  /\ pc = "refresh"
  /\ \E i \in VoteReqs :
       /\ log[i].cred = "X-Voter-Token"
       /\ log[i + 1].ev = "resp"
       /\ log[i + 1].status = 200
  /\ Has(tokens, t.poll.id)
\* ------------------------------------------------------------------
\* Local vote store (SpecVotes)
\* ------------------------------------------------------------------
\* the sum of the counts of a vote state, counted label by label
RECURSIVE TallySum(_, _)
TallySum(counts, labels) ==
  IF labels = {} THEN 0
  ELSE LET l == CHOOSE x \in labels : TRUE
       IN counts[l] + TallySum(counts, labels \ {l})

\* the tokens recorded with a given choice
TokensFor(st, label) == {tok \in DOMAIN st.byToken : st.byToken[tok] = label}

\* the last call on the vote store was setLocalVote
VoteRecorded == log # <<>> /\ log[1].ev = "call" /\ log[1].ep = "setLocalVote"

\* C13: in every stored vote state the counts sum to the number of tokens
\* recorded in byToken, and after setLocalVote(poll, token, choice) the
\* token is recorded with that choice (a token that votes again moves its
\* vote: its previous choice is decremented, not below 0, the new one
\* incremented)
C13_TallyInvariant ==
  /\ \A id \in DOMAIN localVotes :
       /\ TallySum(localVotes[id].counts, DOMAIN localVotes[id].counts)
            = Cardinality(DOMAIN localVotes[id].byToken)
       /\ \A l \in DOMAIN localVotes[id].counts :
            localVotes[id].counts[l] = Cardinality(TokensFor(localVotes[id], l))
  /\ VoteRecorded =>
       /\ Has(localVotes, log[1].poll)
       /\ Has(localVotes[log[1].poll].byToken, log[1].val)
       /\ localVotes[log[1].poll].byToken[log[1].val] = log[1].cred

\* two tokens are recorded, one on each label, and the last call recorded
\* "Tacos"
C13_Witness ==
  /\ VoteRecorded
  /\ log[1].cred = "Tacos"
  /\ Has(localVotes, LocalId(1))
  /\ Cardinality(DOMAIN localVotes[LocalId(1)].byToken) = 2
  /\ localVotes[LocalId(1)].counts = [l \in {"Pizza", "Tacos"} |-> 1]

\* the vote store after setLocalVote is called `times` times with the same
\* arguments on the current store
RECURSIVE Revote(_, _, _, _)
Revote(s, token, choice, times) ==
  IF times = 0 THEN s
  ELSE Revote(setLocalVote(s, VotePoll.id, token, choice, VotePoll.options),
              token, choice, times - 1)

\* C14: from every stored vote state, for every token and choice, calling
\* setLocalVote twice with the same (pollId, token, choice, options) leaves
\* the same byToken map and the same counts map as calling it once
C14_RecordVoteIdempotent ==
  \A n \in 1..MaxVoters, i \in DOMAIN VotePoll.options :
    LET token == LocalTok(n)
        choice == VotePoll.options[i].label
        once == Revote(S, token, choice, 1).localVotes[VotePoll.id]
        twice == Revote(S, token, choice, 2).localVotes[VotePoll.id]
    IN /\ twice.byToken = once.byToken
       /\ twice.counts = once.counts

\* the last call recorded a vote in a store where three tokens have voted
\* and both labels are chosen: repeating it is one of the calls compared
C14_Witness ==
  /\ VoteRecorded
  /\ Cardinality(DOMAIN localVotes[LocalId(1)].byToken) = 3
  /\ \A l \in {"Pizza", "Tacos"} : localVotes[LocalId(1)].counts[l] >= 1

\* the vote state stored for the draft, empty when there is none
StoredVotes ==
  IF Has(localVotes, VotePoll.id) THEN localVotes[VotePoll.id]
  ELSE EmptyVoteState

\* C15: after any sequence of votes on a draft with options O,
\* buildLocalResults returns counts that hold every label of O, each with
\* the number of tokens whose recorded choice is that label (0 when nobody
\* chose it), and total_votes is the sum of the counts; options
\* [Pizza, Tacos] with one vote for Pizza give total_votes 1, Pizza 1,
\* Tacos 0
C15_PerLabelTally ==
  LET r == LocalResults(S, VotePoll)
      O == LabelsOf(VotePoll.options)
  IN /\ r.poll_id = VotePoll.id
     /\ O \subseteq DOMAIN r.counts
     /\ \A l \in DOMAIN r.counts :
          r.counts[l] = Cardinality(TokensFor(StoredVotes, l))
     /\ r.total_votes = TallySum(r.counts, DOMAIN r.counts)
     /\ r.total_votes = Cardinality(DOMAIN StoredVotes.byToken)
     /\ (\E tok \in DOMAIN StoredVotes.byToken :
           StoredVotes.byToken = [x \in {tok} |-> "Pizza"])
        => /\ r.total_votes = 1
           /\ r.counts = [l \in {"Pizza", "Tacos"} |->
                            IF l = "Pizza" THEN 1 ELSE 0]

\* one token has voted, for "Pizza", and the results were built after it
C15_Witness ==
  /\ log # <<>>
  /\ log[1].ep = "buildLocalResults"
  /\ Has(localVotes, VotePoll.id)
  /\ Cardinality(DOMAIN localVotes[VotePoll.id].byToken) = 1
  /\ localVotes[VotePoll.id].counts =
       [l \in {"Pizza", "Tacos"} |-> IF l = "Pizza" THEN 1 ELSE 0]

\* the step is a call of buildLocalResults
ResultsBuilt ==
  /\ log' # <<>>
  /\ log'[1].ev = "call"
  /\ log'[1].ep = "buildLocalResults"

\* C16: a call of buildLocalResults(poll) changes nothing in the stored
\* vote-state map (no entry created or modified, also for a poll without
\* vote state), and the counts it returns are the counts stored at call time
C16_BuildResultsPure ==
  [][ResultsBuilt =>
        /\ localVotes' = localVotes
        /\ StoredVotes'.counts = StoredVotes.counts]_vars

\* ------------------------------------------------------------------
\* Local vote path (Spec)
\* ------------------------------------------------------------------
\* the step is castVote on the poll shown, and that poll is local
LocalVoteStep ==
  /\ CastVoteClick
  /\ vbPoll.is_local \/ startsWithLocal(vbPoll.id)

\* the step purges the local state of a poll
Purges(id) ==
  \E i \in DOMAIN log' :
    i > Len(log) /\ log'[i].ev = "purge" /\ log'[i].poll = id

\* the votes counted for a stored vote state
TotalVotes(st) == TallySum(st.counts, DOMAIN st.counts)

\* C17: castVote on a local poll sends no network request and records the
\* vote under the per-poll device token: the token is created on the first
\* call and every later step keeps it until the poll is purged, so the
\* total of a local poll voted from this device never exceeds 1
C17_LocalVotePath ==
  [][/\ LocalVoteStep =>
          /\ pc' = "idle"
          /\ log' = <<>>
          /\ remotePolls' = remotePolls
          /\ spent' = spent
          /\ stampPool' = stampPool
          /\ Has(tokens', vbPoll.id)
          /\ Has(tokens, vbPoll.id) => tokens'[vbPoll.id] = tokens[vbPoll.id]
          /\ Has(localVotes', vbPoll.id)
          /\ DOMAIN localVotes'[vbPoll.id].byToken = {tokens'[vbPoll.id]}
          /\ localVotes'[vbPoll.id].byToken[tokens'[vbPoll.id]]
               \in LabelsOf(vbPoll.options)
     /\ \A id \in DOMAIN tokens :
          (startsWithLocal(id) /\ ~Purges(id))
            => Has(tokens', id) /\ tokens'[id] = tokens[id]
     /\ \A id \in DOMAIN localVotes' :
          startsWithLocal(id) => TotalVotes(localVotes'[id]) <= 1]_vars

\* a castVote on a local poll has just moved the device's vote to "Tacos"
C17_Witness ==
  /\ pc = "idle"
  /\ last.op = "castVote"
  /\ startsWithLocal(last.poll)
  /\ Has(tokens, last.poll)
  /\ Has(localVotes, last.poll)
  /\ localVotes[last.poll].byToken = [x \in {tokens[last.poll]} |-> "Tacos"]
  /\ localVotes[last.poll].counts =
       [l \in {"Pizza", "Tacos"} |-> IF l = "Tacos" THEN 1 ELSE 0]

\* ------------------------------------------------------------------
\* Stamp pool (SpecPool)
\* ------------------------------------------------------------------
\* the requests of a trace, and those that are mint requests
Reqs(lg) == {i \in DOMAIN lg : lg[i].ev = "req"}

MintReqs(lg) == {i \in Reqs(lg) : lg[i].ep = "POST /stamp"}

\* the value the call has returned, when it has returned one
HasReturned(lg) == lg # <<>> /\ lg[Len(lg)].ev = "return"

Returned(lg) == lg[Len(lg)].val

\* the stamps among the entries the answered mint issued
IssuedStamps(lg) ==
  UNION {{lg[i].val[j] : j \in {k \in DOMAIN lg[i].val : lg[i].val[k][1] = "s"}} :
           i \in {k \in DOMAIN lg : lg[k].ev = "issued"}}

\* the step is a call of getOrFetchOneStampOrNull, up to its first await
GetOrMintCalled ==
  /\ pc = "idle"
  /\ log' # <<>>
  /\ log'[1].ep = "getOrFetchOneStampOrNull"

\* the step is the rest of that call, once the mint was answered
GetOrMintAnswered == pc = "gmint"

\* C18: getOrFetchOneStampOrNull with stamps pooled returns a member of the
\* pool and sends no request; with an empty pool and no identity it returns
\* null and sends no request; with an empty pool and an identity it sends
\* exactly one mint request and then returns a member of the resulting
\* pool, or null when the mint failed or issued no stamp
C18_GetOrMint ==
  [][/\ GetOrMintCalled =>
          /\ stampPool # <<>> =>
               /\ pc' = "idle"
               /\ HasReturned(log')
               /\ Returned(log') \in Range(stampPool)
               /\ Reqs(log') = {}
          /\ (stampPool = <<>> /\ getExchangeHmacCredsOrNull(S).null) =>
               /\ pc' = "idle"
               /\ HasReturned(log')
               /\ Returned(log') = Nil
               /\ Reqs(log') = {}
          /\ (stampPool = <<>> /\ ~getExchangeHmacCredsOrNull(S).null) =>
               /\ pc' = "gmint"
               /\ ~HasReturned(log')
               /\ Cardinality(MintReqs(log')) = 1
               /\ Reqs(log') = MintReqs(log')
     /\ GetOrMintAnswered =>
          /\ pc' = "idle"
          /\ HasReturned(log')
          /\ Cardinality(MintReqs(log')) = 1
          /\ Reqs(log') = MintReqs(log')
          /\ Returned(log') = Nil \/ Returned(log') \in Range(stampPool')
          /\ Returned(log') = Nil <=> IssuedStamps(log') = {}
          /\ Range(stampPool') = IssuedStamps(log')]_vars

\* a call on an empty pool has minted and returned one of the two stamps
\* the mint issued
C18_Witness ==
  /\ pc = "idle"
  /\ HasReturned(log)
  /\ log[1].ep = "getOrFetchOneStampOrNull"
  /\ Cardinality(MintReqs(log)) = 1
  /\ Cardinality(IssuedStamps(log)) = 2
  /\ Returned(log) \in Range(stampPool)

\* no stamp is in the pool twice
NoDuplicates(pool) ==
  \A i, j \in DOMAIN pool : pool[i] = pool[j] => i = j

\* the step is the answer to a mint request
MintAnswered == pc \in {"pmint", "gmint"}

\* C19: whatever sequence of mint, pickOne, getOrMint and clear is run, the
\* stored pool never holds a stamp twice; an answered mint leaves in the
\* pool the stamps that were in it, in their order, followed by every
\* issued stamp that was not in it, and nothing else
C19_PoolDeduplicated ==
  [][/\ NoDuplicates(stampPool')
     /\ MintAnswered =>
          /\ Range(stampPool') = Range(stampPool) \cup IssuedStamps(log')
          /\ Len(stampPool') >= Len(stampPool)
          /\ SubSeq(stampPool', 1, Len(stampPool)) = stampPool]_vars

\* a mint issued a stamp that was already pooled together with a new one:
\* the pooled one kept its place and the new one was appended after it
C19_Witness ==
  /\ pc = "idle"
  /\ log # <<>>
  /\ log[1].ep = "fetchStampsFromExchange"
  /\ \E i \in DOMAIN log :
       log[i].ev = "issued" /\ log[i].val = <<Stamp(1), Stamp(2)>>
  /\ stampPool = <<Stamp(2), Stamp(1)>>

\* ------------------------------------------------------------------
\* Signed requests (Spec)
\* ------------------------------------------------------------------
\* the requests the step sends to POST /stamp or POST /polls
NewSignedReqs ==
  {i \in DOMAIN log' :
     /\ log'[i].ev = "req"
     /\ log'[i].ep \in {"POST /stamp", "POST /polls"}
     /\ i > Len(log) \/ log[i] # log'[i]}

SignedHeaders == {"X-Self-ID", "X-Timestamp", "X-Nonce", "X-Signature"}

\* C20: every POST /stamp and POST /polls request is sent with an identity
\* stored and carries X-Self-ID, X-Timestamp, X-Nonce and X-Signature, the
\* first being the stored self_id and the last the HMAC under the stored
\* signing key of a base that holds the timestamp and the nonce sent;
\* while no identity is stored, signing throws and no step sends such a
\* request
C20_SignedEndpoints ==
  [][/\ \A i \in NewSignedReqs :
          LET rq == log'[i]
          IN /\ ~getExchangeHmacCredsOrNull(S).null
             /\ rq.cred = "HMAC"
             /\ DOMAIN rq.val = SignedHeaders
             /\ rq.val["X-Self-ID"] = identity.self_id
             /\ rq.val["X-Signature"] =
                  hmacSha256Hex(identity.signing_key,
                    SigningBase(rq.opt.method, rq.opt.url.pathname,
                                rq.val["X-Timestamp"], rq.val["X-Nonce"],
                                sha256Hex(rq.opt.body.text)))
     /\ getExchangeHmacCredsOrNull(S).null =>
          /\ NewSignedReqs = {}
          /\ \A path \in {"/stamp", "/polls"} :
               buildHmacHeaders(S, "POST", ApiPrefix \o path, <<>>,
                                Timestamp, Nonce).throws]_vars

\* the creation request of an assert is in flight, signed for the stored
\* identity
C20_Witness ==
  /\ pc = "apost"
  /\ InFlight.ep = "POST /polls"
  /\ InFlight.cred = "HMAC"
  /\ InFlight.val["X-Self-ID"] = identity.self_id
  /\ \E i \in DOMAIN log : log[i].ev = "req" /\ log[i].ep = "POST /stamp"

\* ------------------------------------------------------------------
\* Signing (SpecSign, Spec)
\* ------------------------------------------------------------------
\* the signed requests the step sends
NewAuthedReqs ==
  {i \in DOMAIN log' :
     /\ log'[i].ev = "req"
     /\ log'[i].cred = "HMAC"
     /\ i > Len(log) \/ log[i] # log'[i]}

\* C21: for every signed request the signature is the HMAC of the base
\* built from what is transported: the method used (uppercase), the path
\* component of the URL requested, which is the API prefix followed by the
\* endpoint path, and the hash of the body text that is sent (of the empty
\* text when no body is sent)
C21_SigningCoupling ==
  [][\A i \in NewAuthedReqs :
       LET rq == log'[i]
       IN /\ \E m \in {"POST", "GET"}, path \in SignPaths :
               /\ rq.ep = m \o " " \o path
               /\ rq.opt.method = m
               /\ rq.opt.url.origin = EXCHANGE_API.origin
               /\ rq.opt.url.pathname = ApiPrefix \o path
          /\ rq.opt.body.undefined => rq.opt.body.text = ""
          /\ rq.val["X-Signature"] =
               hmacSha256Hex(identity.signing_key,
                 SigningBase(rq.opt.method, rq.opt.url.pathname,
                             rq.val["X-Timestamp"], rq.val["X-Nonce"],
                             sha256Hex(rq.opt.body.text)))]_vars

\* a creation request is in flight under the second key, with the text of
\* its payload as body
C21_Witness ==
  /\ pc = "signed"
  /\ identity.signing_key = SigningKey(2)
  /\ InFlight.ep = "POST /polls"
  /\ InFlight.opt.url.pathname = "/api/polls"
  /\ ~InFlight.opt.body.undefined
  /\ InFlight.opt.body.text = JSONstringify(<<"created_local_id", LocalId(1)>>)

\* the five signed fields of a request as it is transported
SignedFields(rq) ==
  <<rq.opt.method, rq.opt.url.pathname, rq.val["X-Timestamp"],
    rq.val["X-Nonce"], rq.opt.body.text>>

\* every combination of the five fields a request may be received with
FieldCombinations ==
  {"POST", "GET"} \X {SignPath(path) : path \in SignPaths} \X SignTimes
    \X SignNonces
    \X {IF b = Nil THEN "" ELSE JSONstringify(b) : b \in SignBodies}

\* the signed requests of the trace
AuthedReqs == {i \in DOMAIN log : log[i].ev = "req" /\ log[i].cred = "HMAC"}

\* C22: under the stored key, signing the same method, path, timestamp,
\* nonce and body again gives the signature that was sent, and that
\* signature verifies against the request as sent; against a request that
\* differs in any of the five fields the base is another one and the
\* signature does not verify
C22_SignatureBinding ==
  \A i \in AuthedReqs :
    LET rq == log[i]
        f == SignedFields(rq)
        sig == rq.val["X-Signature"]
        base(g) == SigningBase(g[1], g[2], g[3], g[4], sha256Hex(g[5]))
    IN /\ f \in FieldCombinations
       /\ sig = hmacSha256Hex(identity.signing_key, base(f))
       /\ Verifies(identity.signing_key, f[1], f[2], f[3], f[4], f[5], sig)
       /\ \A g \in FieldCombinations :
            g # f =>
              /\ base(g) # base(f)
              /\ ~Verifies(identity.signing_key, g[1], g[2], g[3], g[4],
                            g[5], sig)
       /\ \A k \in 1..MaxKeys :
            SigningKey(k) # identity.signing_key =>
              ~Verifies(SigningKey(k), f[1], f[2], f[3], f[4], f[5], sig)

\* a mint request signed at the later time with the second nonce is in
\* flight
C22_Witness ==
  /\ pc = "signed"
  /\ InFlight.ep = "POST /stamp"
  /\ InFlight.val["X-Timestamp"] = "1700000000001"
  /\ InFlight.val["X-Nonce"] = "0b"
  /\ InFlight.opt.body.text = JSONstringify(<<>>)

\* the requests the step sends
NewReqs ==
  {i \in DOMAIN log' :
     /\ log'[i].ev = "req"
     /\ i > Len(log) \/ log[i] # log'[i]}

\* C23: once an identity is stored, no request holds the signing key: a
\* signed request carries the self_id, the timestamp, the nonce and the
\* HMAC made under the key over the transported fields, none of which is
\* the key, nor is its method, URL or body; any other request carries at
\* most a stamp or a voter token as credential and an option id as body
C23_KeyConfidential ==
  [][\A i \in NewReqs :
       LET rq == log'[i]
           K == identity.signing_key
       IN K # "" =>
            /\ rq.ep # K
            /\ rq.cred \in {"HMAC", "X-Stamp", "X-Voter-Token", ""}
            /\ rq.cred = "HMAC" =>
                 /\ DOMAIN rq.val = SignedHeaders
                 /\ \A h \in SignedHeaders \ {"X-Signature"} : rq.val[h] # K
                 /\ rq.val["X-Signature"] =
                      hmacSha256Hex(K,
                        SigningBase(rq.opt.method, rq.opt.url.pathname,
                                    rq.val["X-Timestamp"], rq.val["X-Nonce"],
                                    sha256Hex(rq.opt.body.text)))
                 /\ rq.opt.method # K
                 /\ rq.opt.url.origin # K
                 /\ rq.opt.url.pathname # K
                 /\ rq.opt.body.text # K
            /\ rq.cred = "X-Stamp" =>
                 /\ rq.val \in {Stamp(n) : n \in 1..(MaxStamps + 1)}
                 /\ rq.opt \in Nat
            /\ rq.cred = "X-Voter-Token" =>
                 /\ rq.val \in Range(tokens)
                 /\ rq.opt \in Nat
            /\ rq.cred = "" => rq.val = Nil /\ rq.opt = 0]_vars

\* with an identity stored, a vote is in flight that followed a signed mint
C23_Witness ==
  /\ identity.signing_key # ""
  /\ pc = "vote1"
  /\ InFlight.cred = "X-Stamp"
  /\ \E i \in AuthedReqs : log[i].ep = "POST /stamp"

\* ------------------------------------------------------------------
\* Proof of work (SpecPow)
\* ------------------------------------------------------------------

\* leading "0" digits of a hash
RECURSIVE LeadingZeros(_)
LeadingZeros(h) ==
  IF h = <<>> \/ Head(h) # "0" THEN 0 ELSE 1 + LeadingZeros(Tail(h))

\* candidate n solves the challenge at decimal difficulty d
Solves(challenge, n, d) == LeadingZeros(challenge[n + 1]) >= d

PowReturned == ~pow.running /\ pow.result # ""

\* C24: for a decimal difficulty d >= 0, the nonce solvePowLite returns has
\* a hash with at least d leading hex zeros and no smaller candidate of the
\* search order 0, 1, 2, ... has; and while the search runs, no candidate it
\* has passed was a solution
C24_PowResult ==
  (pow.difficulty.num /\ pow.difficulty.n >= 0) =>
     /\ PowReturned =>
          \E n \in 0..MaxPowNonce :
             /\ pow.result = String(n)
             /\ Solves(pow.hash, n, pow.difficulty.n)
             /\ \A m \in 0..(n - 1) : ~Solves(pow.hash, m, pow.difficulty.n)
     /\ pow.running =>
          \A m \in 0..(pow.nonce - 1) : ~Solves(pow.hash, m, pow.difficulty.n)

\* the search returned its last candidate at the highest difficulty, after
\* two candidates that failed
C24_Witness ==
  /\ PowReturned
  /\ pow.difficulty = [num |-> TRUE, n |-> MaxDifficulty]
  /\ pow.result = String(MaxPowNonce)
  /\ LeadingZeros(pow.hash[1]) = MaxDifficulty - 1


\* ------------------------------------------------------------------
\* Identity creation (SpecIdentity)
\* ------------------------------------------------------------------

\* C25: once self_id and signing key are stored, no step replaces either of
\* them (no operation of the program is an explicit replacement)
C25_IdentityNotOverwritten ==
  [][~getExchangeHmacCredsOrNull(S).null => identity' = identity]_vars


\* ------------------------------------------------------------------
\* Shape of the poll index (Spec)
\* ------------------------------------------------------------------

\* C26: an index response that is a bare array of the Exchange's polls is
\* treated like {polls: [...]} with the same polls: the poll listing lists
\* the same polls and the assert lookup finds the same match and goes on
\* the same way
C26_IndexShapeTolerated ==
  /\ pc = "refresh" =>
       refreshPollsListed(S, "array") = refreshPollsListed(S, "polls")
  /\ pc = "alist" =>
       assertLookedUp(S, "array") = assertLookedUp(S, "polls")


\* ------------------------------------------------------------------
\* Results normalization (SpecNorm)
\* ------------------------------------------------------------------

Normalized == Len(log) = 2 /\ log[1].ep = "normalizeResults"

\* the documented shapes of a payload for a tally
Shapes(tally) == {BareTotals(tally), BareCounts(tally), NestedTotals(tally)}

\* C27: when normalizeResults was given a tally as bare totals, as bare
\* counts or as results nested with totals, the totals it returned are the
\* tally, which are the totals it returns for the other two shapes
C27_ShapeIndependent ==
  Normalized =>
    \A tally \in Tallies :
       log[1].val \in Shapes(tally) =>
          /\ log[2].val.totals = tally
          /\ \A other \in Shapes(tally) :
                normalizeResults(other).totals = log[2].val.totals

\* a tally with two weights that differ was normalized from bare counts
C27_Witness ==
  /\ Normalized
  /\ \E tally \in Tallies :
       /\ log[1].val = BareCounts(tally)
       /\ <<"11", MaxWeight>> \in tally
       /\ <<"12", 1>> \in tally
       /\ log[2].val.totals = tally


\* a response arrived on page p in this step (a reload gives no response)
Answered(p) ==
  /\ pages.page[p].pc \in {"challenge", "create"}
  /\ pages'.page[p].pc # pages.page[p].pc
  /\ pages'.page[p].r.status # 0

\* the response that arrived is a non-2xx status
BadStatus(p) == Answered(p) /\ ~Ok(pages'.page[p].r.status)

\* the response that arrived is a 2xx create response without self_id or
\* without signing_key
BadPayload(p) ==
  /\ Answered(p)
  /\ pages.page[p].pc = "create"
  /\ Ok(pages'.page[p].r.status)
  /\ ~PayloadComplete(pages'.page[p].r.data)

\* identity creation has failed on page p: the handler is over and the
\* status line shows the message of the error
FailedWith(p, message) ==
  /\ pages'.page[p].pc = "idle"
  /\ ~pages'.page[p].disabled
  /\ pages'.page[p].identityStatus = message
  /\ identity' = identity

\* the message holds the status of the response
CarriesStatus(message, status) ==
  \E i \in DOMAIN message : message[i] = ToString(status)

\* self_id and signing key change only together, to the two fields of one
\* complete 2xx create response
WrittenTogether ==
  identity' # identity =>
    /\ identity'.self_id # "" /\ identity'.signing_key # ""
    /\ \E p \in 1..MaxPages :
         /\ Answered(p)
         /\ pages.page[p].pc = "create"
         /\ Ok(pages'.page[p].r.status)
         /\ identity' = [self_id |-> pages'.page[p].r.data.self_id,
                         signing_key |-> pages'.page[p].r.data.signing_key]

\* C28 as stated: on a non-2xx challenge or create response, and on a create
\* response without self_id or signing_key, identity creation fails with an
\* error that carries the server status and the store is unchanged; the two
\* fields are written only together from one successful response
C28_AllOrNothingCarriesStatus ==
  [][/\ \A p \in 1..MaxPages :
          (BadStatus(p) \/ BadPayload(p)) =>
             /\ FailedWith(p, pages'.page[p].identityStatus)
             /\ CarriesStatus(pages'.page[p].identityStatus,
                              pages'.page[p].r.status)
     /\ WrittenTogether]_vars

\* C28: on a non-2xx challenge or create response identity creation fails
\* with an error that carries the server status; on a 2xx create response
\* without self_id or signing_key it fails with the error that names the
\* missing fields; in both cases the store is unchanged, and the two fields
\* are written only together from one successful response
C28_AllOrNothing ==
  [][/\ \A p \in 1..MaxPages :
          /\ BadStatus(p) =>
               /\ FailedWith(p, pages'.page[p].identityStatus)
               /\ CarriesStatus(pages'.page[p].identityStatus,
                                pages'.page[p].r.status)
          /\ BadPayload(p) =>
               FailedWith(p, <<"Identity create returned unexpected payload (missing self_id/signing_key).">>)
     /\ WrittenTogether]_vars

\* a 200 create response without signing_key has arrived on a page and no
\* identity is stored
C28_Witness ==
  /\ identity = NoIdentity
  /\ \E p \in 1..MaxPages :
       /\ pages.page[p].pc = "idle"
       /\ pages.page[p].r.status = 200
       /\ pages.page[p].r.data.self_id # ""
       /\ pages.page[p].r.data.signing_key = ""
       /\ pages.page[p].identityStatus =
            <<"Identity create returned unexpected payload (missing self_id/signing_key).">>


\* ------------------------------------------------------------------
\* The credential reserve step of assert (Spec)
\* ------------------------------------------------------------------

\* the mint request of the handler got no usable response
MintFailed(lg) ==
  \E i \in DOMAIN lg :
     lg[i].ev = "resp" /\ lg[i].ep = "POST /stamp" /\ lg[i].status = 0

\* the Exchange holds a poll asserted from the draft the handler asserts
Matched == \E i \in DOMAIN remotePolls : remotePolls[i].created_local_id = t.localKey

\* C29: the reserve step of assert sends a mint request only when the stamp
\* pool is empty at that moment, and one at most before the merge check; when
\* the mint is answered, failed or not, assert sends the merge lookup, and
\* after a failed mint a lookup that finds no match is followed by the
\* creation request
C29_ReserveStep ==
  [][/\ (pc = "idle" /\ pc' = "amint") =>
          /\ stampPool = <<>>
          /\ log'[Len(log')].ev = "req" /\ log'[Len(log')].ep = "POST /stamp"
     /\ pc' \in {"amint", "alist"} => Cardinality(MintReqs(log')) <= 1
     /\ (pc = "amint" /\ pc' # "amint") =>
          /\ pc' = "alist"
          /\ log'[Len(log')].ev = "req" /\ log'[Len(log')].ep = "GET /polls"
     /\ (pc = "alist" /\ pc' # "alist" /\ MintFailed(log) /\ ~Matched) =>
          /\ pc' = "apost"
          /\ log'[Len(log')].ev = "req" /\ log'[Len(log')].ep = "POST /polls"]_vars

\* the creation request of an assert is out after its mint request failed
C29_Witness ==
  /\ pc = "apost"
  /\ MintFailed(log)
  /\ stampPool = <<>>


\* ------------------------------------------------------------------
\* Merge target selection (SpecMerge)
\* ------------------------------------------------------------------

LookedUp == Len(log) = 1 /\ log[1].ep = "mergeLookup"

\* C30: when several polls of the index were asserted from the draft, the
\* lookup targets one of them whose created_at is the latest among them
C30_LatestMatch ==
  LookedUp =>
    LET polls == log[1].val
        matches == Matches(polls, t.localKey)
    IN Cardinality(matches) >= 2 =>
         /\ t.target \in {polls[i] : i \in matches}
         /\ \A i \in matches : polls[i].created_at <= t.target.created_at


\* ------------------------------------------------------------------
\* Stamp exhaustion (SpecRemote)
\* ------------------------------------------------------------------

\* a first vote on a remote poll starts with an empty pool and no identity
NoStampNoIdentity ==
  /\ CastVoteClick
  /\ ~vbPoll.is_local /\ ~startsWithLocal(vbPoll.id)
  /\ ~Has(tokens, vbPoll.id)
  /\ stampPool = <<>>
  /\ getExchangeHmacCredsOrNull(S).null

\* the mint of a first vote is answered and the Exchange has issued nothing
\* (the request failed, or its response lists no stamp)
NoStampMinted ==
  /\ pc = "vmint1"
  /\ pc' # "vmint1"
  /\ nextStamp' = nextStamp

\* C31: a first vote on a remote poll for which no stamp can be had (empty
\* pool and no identity, a failed mint, a mint that issues nothing) sends no
\* vote request and no further mint, is not counted by the Exchange, and
\* leaves the voter tokens and last-choice hints of the remote polls as they
\* were; a castVote returns at once with a failure outcome and leaves both
\* maps untouched
C31_StampExhausted ==
  [][(NoStampNoIdentity \/ NoStampMinted) =>
       /\ pc' \notin {"vote1", "vote2", "vmint1", "vmint2"}
       /\ ~\E i \in DOMAIN log' :
             /\ i > Len(log)
             /\ log'[i].ev = "req"
             /\ log'[i].ep \in {"POST /vote", "POST /stamp"}
       /\ spent' = spent
       /\ \A id \in (DOMAIN tokens) \cup (DOMAIN tokens') :
            ~startsWithLocal(id) =>
               Has(tokens, id) /\ Has(tokens', id) /\ tokens'[id] = tokens[id]
       /\ \A id \in (DOMAIN lastChoice) \cup (DOMAIN lastChoice') :
            ~startsWithLocal(id) =>
               /\ Has(lastChoice, id) /\ Has(lastChoice', id)
               /\ lastChoice'[id] = lastChoice[id]
       /\ pc' = "idle" => ~last'.voted
       /\ (NoStampNoIdentity \/ InCastVote) =>
            /\ pc' = "idle"
            /\ last'.op = "castVote"
            /\ tokens' = tokens
            /\ lastChoice' = lastChoice]_vars

\* a castVote on a hydrated remote poll has returned a failure with no
\* identity, no token and no stamp on the device
C31_Witness ==
  /\ pc = "idle"
  /\ last.op = "castVote"
  /\ ~last.voted
  /\ ~startsWithLocal(last.poll)
  /\ vbPoll.id = last.poll
  /\ vbPoll.options # <<>>
  /\ ~Has(tokens, last.poll)
  /\ stampPool = <<>>
  /\ getExchangeHmacCredsOrNull(S).null


\* ------------------------------------------------------------------
\* The proof of work yields (SpecYield)
\* ------------------------------------------------------------------

UiPending == "ui" \in Range(pow.queue)

\* C32: a running search never tries more than YieldEvery candidates in a
\* row without pausing for the event loop, and a user event that is pending
\* is eventually handled, also when the search finds no solution
C32_PowYields ==
  /\ [](pow.since < YieldEvery)
  /\ (UiPending ~> ~UiPending)

\* a search without solution has paused, a user event was handled while it
\* ran, and it is in its second stretch of candidates
C32_Witness ==
  /\ pc = "pow"
  /\ pow.running
  /\ pow.difficulty.n > 0
  /\ pow.nonce > YieldEvery
  /\ pow.served


\* field f is absent from the payload: neither the payload nor its results
\* carry a number there
Absent(obj, f) ==
  /\ obj.nums[f].type # "number"
  /\ obj.results.nums[f].type # "number"

\* C33 as stated: normalizeResults does not throw, and people_voted,
\* total_votes and represented_weight are null when the payload lacks them
C33_AbsentIsNullAll ==
  Normalized =>
    LET obj == log[1].val
        res == log[2].val
    IN /\ ~res.throws
       /\ Absent(obj, "people_voted") => res.people_voted = Null
       /\ Absent(obj, "total_votes") => res.total_votes = Null
       /\ (Absent(obj, "weights_used_sum") /\ Absent(obj, "represented_people"))
            => res.represented_weight = Null

\* C33: normalizeResults does not throw; people_voted and total_votes are
\* null when the payload lacks them and the number of the payload (0
\* included) when it has one; represented_weight is a number always: when
\* the payload has neither weights_used.sum nor represented_people it is the
\* sum of the totals, 0 without totals
C33_AbsentIsNull ==
  Normalized =>
    LET obj == log[1].val
        res == log[2].val
    IN /\ ~res.throws
       /\ \A f \in {"people_voted", "total_votes"} :
            LET got == IF f = "people_voted" THEN res.people_voted
                       ELSE res.total_votes
            IN /\ Absent(obj, f) => got = Null
               /\ ~Absent(obj, f) => got \in {obj.nums[f], obj.results.nums[f]}
                                     /\ got.type = "number"
       /\ res.represented_weight.type = "number"
       /\ (Absent(obj, "weights_used_sum") /\ Absent(obj, "represented_people"))
            => res.represented_weight = Number(SumValues(res.totals))

\* a payload with total_votes 0 under results and no other numeric field
\* was normalized: total_votes is 0, people_voted is null
C33_Witness ==
  /\ Normalized
  /\ log[1].val.results.nums["total_votes"] = Number(0)
  /\ Absent(log[1].val, "people_voted")
  /\ Absent(log[1].val, "weights_used_sum")
  /\ Absent(log[1].val, "represented_people")
  /\ log[2].val.total_votes = Number(0)
  /\ log[2].val.people_voted = Null
  /\ log[2].val.represented_weight = Number(0)


\* the EventSource objects that are open
OpenSources == {i \in DOMAIN live.sources : live.sources[i].open}

\* C34: when the stream of the poll shown reports an error, that stream is
\* closed (so the browser does not reconnect it)
C34_ErrorClosesStream ==
  [][StreamError =>
       (live'.sources[live'.erred].poll = currentPollId
          => live'.erred \notin OpenSources')]_vars

\* C35: at most one stream is open, es refers to it, and it is the stream
\* of the poll openPoll was last called with
C35_OneLiveStream ==
  /\ Cardinality(OpenSources) <= 1
  /\ \A i \in OpenSources :
       /\ live.es = i
       /\ live.sources[i].poll = live.opened


\* the remote polls that carry created_local_id d
Carrying(d) ==
  {i \in DOMAIN remotePolls : remotePolls[i].created_local_id = d}

\* both invocations in flight are asserts of draft d
BothAsserting(d) ==
  /\ log # <<>> /\ log[1].ep = "assert" /\ log[1].poll = d
  /\ parked.log # <<>> /\ parked.log[1].ep = "assert"
  /\ parked.log[1].poll = d

\* C36: two assert invocations of one draft that overlap create at most
\* one remote poll carrying the draft's created_local_id
C36_ConcurrentAsserts ==
  \A n \in 1..MaxDrafts :
    BothAsserting(LocalId(n)) => Cardinality(Carrying(LocalId(n))) <= 1

\* C37: when assert purges a draft, the choice it carries is the vote the
\* store holds for the draft at that moment
C37_CarriedVoteCurrent ==
  [][\A i \in DOMAIN localPolls :
       (\A j \in DOMAIN localPolls' : localPolls'[j].id # localPolls[i].id)
         => t'.localChoice = LocalSelectedChoice(S, localPolls[i])]_vars


\* a vote request for a poll id with the local prefix is in the trace
LocalVoteRequest ==
  \E i \in DOMAIN log :
    /\ log[i].ev = "req"
    /\ log[i].ep = "POST /vote"
    /\ startsWithLocal(log[i].poll)

\* castExchangeVoteByLabel was called by assert for an id with the local
\* prefix and has returned
CarriedToLocalId ==
  /\ log # <<>>
  /\ log[1].ep = "assert"
  /\ startsWithLocal(t.vpoll.id)
  /\ pc = "refresh"

\* a vote button of a poll whose id has the local prefix is clicked
LocalIdVoteClick == CastVoteClick /\ startsWithLocal(vbPoll.id)

\* C38 as stated: no vote request goes out for an id with the local prefix;
\* the carry-forward fails for such an id, and so does castVote (no vote is
\* recorded)
C38_LocalIdsFail ==
  /\ [](~LocalVoteRequest)
  /\ [](CarriedToLocalId =>
          assertOut = "This poll is local-only (not on exchange yet).")
  /\ [][LocalIdVoteClick => localVotes' = localVotes]_vars

\* C38: no vote request goes out for an id with the local prefix; the
\* carry-forward fails for such an id with the local-only message; castVote
\* for such an id ends at once with the vote recorded in the local store
C38_LocalIdsStayLocal ==
  /\ [](~LocalVoteRequest)
  /\ [](CarriedToLocalId =>
          assertOut = "This poll is local-only (not on exchange yet).")
  /\ [][LocalIdVoteClick =>
          /\ pc' = "idle"
          /\ last'.op = "castVote" /\ ~last'.voted
          /\ Has(localVotes', vbPoll.id)
          /\ Range(localVotes'[vbPoll.id].byToken) # {}
          /\ remotePolls' = remotePolls /\ spent' = spent]_vars

\* assert has carried a vote to a matched poll whose id has the local
\* prefix: the call returned without a request
C38_Witness ==
  /\ CarriedToLocalId
  /\ t.localChoice # ""
  /\ ~LocalVoteRequest
  /\ t.target.id = t.vpoll.id

====
